---- MODULE Spec2Model ----
(***************************************************************************)
(* Model of ai_write_helper: the trigger detector and its pipeline         *)
(* (services/monitor.py, main.py), the document store                     *)
(* (services/document.py) and the retry engine (services/api.py).          *)
(*                                                                         *)
(* The specifications of the module:                                       *)
(*   Spec / FairSpec  the detector instances, their handlers and runs      *)
(*   SpecDoc          write_document / read_document on one target file    *)
(*   SpecApi          _send_request against a provider (FairSpecApi: fair) *)
(*   SpecCap          _get_selected_text                                   *)
(*   SpecCfg          the configuration file and the API key               *)
(*   SpecRecent       _update_recent_documents                             *)
(*   SpecTrunc        the document excerpt of _construct_prompt            *)
(*   SpecPrompt       the placeholder substitution of _construct_prompt    *)
(*   SpecClean        _clean_generated_content                             *)
(*   SpecParse        _parse_response                                      *)
(*   SpecLock         the locks of the services                            *)
(*   SpecReq          a request of the window: path check and write        *)
(***************************************************************************)
EXTENDS Integers, Sequences, FiniteSets, TLC

(***************************************************************************)
(* Bounds of the model                                                     *)
(***************************************************************************)
MaxMonitors == 2
MaxTicks == 2
MaxTriggers == 2
MaxLen == 2
MaxLines == 5
MaxUpdates == 1

(***************************************************************************)
(* Program constants                                                       *)
(***************************************************************************)
WindowSeconds == 2
MAX_RETRIES == 3
RETRY_DELAY == 2
\* RETRY_BACKOFF = 1.5, as the fraction 3/2
RETRY_BACKOFF == <<3, 2>>
max_retries == 2
\* retry_delay = 0.2 seconds, in milliseconds
retry_delay == 200
max_recent == 10

VARIABLES
    now,                \* time.time(), in whole seconds
    created,            \* number of TextMonitorService instances constructed
    installed,          \* per instance: "no", "ok" (listeners active), "failed"
    running,            \* TextMonitorService.running
    start_raised,       \* per instance: start() ended by raising to its caller
    is_selecting,       \* TextMonitorService.is_selecting
    last_select_time,   \* TextMonitorService.last_select_time
    is_processing,      \* TextMonitorService.is_processing
    pc,                 \* per instance: where its keyboard listener thread is in _handle_selection_enter
    outcome,            \* per instance: how its run is ending ("none": not yet)
    emitted,            \* per instance: signals emitted by its run so far
    lastOutcome,        \* history: outcome of the run that finished last
    released,           \* history: per instance, time of the last left-button release seen (-1: none)
    runsStarted,        \* history: number of pipeline runs started
    idleTriggers,       \* history: confirmed triggers that arrived while no run was active
    selection,          \* history: per instance, what became of the selection it saw last:
                        \* "scrolled" (a scroll came while the button was down), "cancelled"
                        \* (the button was released after that scroll), "consumed" (a run was
                        \* started for it), "none" otherwise
    effects             \* history: per instance, what its run has done outside the process:
                        \* "request" (a request was sent to the provider), "write"
                        \* (write_document was called)

detVars == <<now, created, installed, running, start_raised, is_selecting, last_select_time,
             is_processing, pc, outcome, emitted, lastOutcome, released,
             runsStarted, idleTriggers, selection, effects>>

VARIABLES
    os_name,            \* os.name of the platform: "nt" or "posix"
    ext,                \* extension of the target path: "txt" (.txt, .md, others) or "docx"
    docx_lib,           \* "import docx" succeeds in this installation
    sidecar,            \* the file target_path + '.txt': [exists, data]
    temp_docx,          \* the temporary file is named temp_path + '.docx'
    target,             \* the target file: [exists, data]
    temp,               \* the temporary file of write_document: [exists, data]
    dpc,                \* position of the writer in write_document
    w_content,          \* argument content of the write in progress
    w_incremental,      \* argument incremental of the write in progress
    w_err,              \* an exception is propagating out of the write in progress
    orig,               \* history: the target file when the last write began
    staged,             \* history: what the last write staged in its temporary file
    lastWrite,          \* history: the last write_document call, once it has returned normally
    prevWrite,          \* history: the overwrite that returned normally right before the last incremental call
    read,               \* history: result of read_document since the last write
    crashed             \* the process was killed

docVars == <<os_name, ext, docx_lib, sidecar, temp_docx, target, temp, dpc, w_content, w_incremental, w_err, orig,
             staged, lastWrite, prevWrite, read, crashed>>

VARIABLES
    apc,                \* position of the caller in _send_request
    retry_count,        \* local retry_count of _send_request
    attempts,           \* history: number of session.post calls of this request
    responses,          \* history: what each session.post of this request met
    sleeps,             \* history: the time.sleep calls of this request, in milliseconds
    result,             \* how _send_request ended ("none": not yet)
    cfg_write_mode,     \* config['write_mode'] of the pipeline run that calls generate_content
    template            \* the template _construct_prompt chose for the request ("none": no prompt built)

promptVars == <<cfg_write_mode, template>>

apiVars == <<apc, retry_count, attempts, responses, sleeps, result, promptVars>>

VARIABLES
    system,             \* platform.system() of the machine
    cpc,                \* position of the caller in _get_selected_text
    retry,              \* loop variable retry of the Windows branch
    cap_attempts,       \* history: copy attempts of this capture
    settles,            \* history: the settle sleeps of this capture, in milliseconds
    reads,              \* history: what each clipboard read of this capture gave
    captured,           \* what _get_selected_text returned ("" also before it returns)
    cap_raised          \* an exception left _get_selected_text

capVars == <<system, cpc, retry, cap_attempts, settles, reads, captured, cap_raised>>

\* the configuration (core/config_manager.py, ui/main_window.py)
VARIABLES
    ui_config,          \* MainWindow.config, the settings held in memory
    config_file,        \* config.json as ConfigManager.save_config left it
    used_key,           \* history: the key generate_content last read from the configuration
    recent_documents,   \* the "recent_documents" entry of config.json: [exists: there is a file, list]
    default_recent,     \* ConfigManager.default_config["recent_documents"]
    updates             \* history: number of _update_recent_documents calls made

recentVars == <<recent_documents, default_recent, updates>>

cfgVars == <<ui_config, config_file, used_key, recentVars>>

\* everything outside the detector, the document store, the retry engine and
\* the selection capture
\* the document text of the prompt (APIService._construct_prompt)
VARIABLES
    document_content,   \* the document text handed to _construct_prompt
    prompt_document,    \* the text that replaces {document_content} in the template
    constructed,        \* _construct_prompt has run its truncation
    selected_text,      \* the selected text handed to _construct_prompt
    theme_prompt,       \* the theme prompt handed to _construct_prompt
    prompt,             \* what _construct_prompt returned
    substituted         \* _construct_prompt has returned

truncVars == <<document_content, prompt_document, constructed, selected_text,
               theme_prompt, prompt, substituted>>

\* content cleaning (APIService._clean_generated_content)
VARIABLES
    clean_input,        \* the content handed to _clean_generated_content
    clean_joined,       \* history: cleaned_content before the blank-line loop
    clean_output,       \* what _clean_generated_content returned
    cleaned             \* _clean_generated_content has run

cleanVars == <<clean_input, clean_joined, clean_output, cleaned>>

\* response normalization (APIService._parse_response)
VARIABLES
    payload,            \* the decoded JSON body handed to _parse_response
    parse_service,      \* its ai_service argument
    parsed              \* how _parse_response ended: what it returned or raised

parseVars == <<payload, parse_service, parsed>>

\* the text functions of services/api.py
textVars == <<truncVars, cleanVars, parseVars>>

\* key validation (APIService.validate_key)
VARIABLES
    validating,         \* validate_key is waiting for its _send_request
    key_valid           \* history: how the last validate_key ended, and on what

valVars == <<validating, key_valid>>

\* callers of write_document on one DocumentService (services/document.py)
VARIABLES
    lock_owner,         \* DocumentService.lock: the thread that holds it, 0 if none
    tpc,                \* per thread: where its write_document call is
    t_content,          \* per thread: the content argument of its call
    t_incremental,      \* per thread: the incremental argument of its call
    t_temp              \* per thread: the data of its temporary file

lockVars == <<lock_owner, tpc, t_content, t_incremental, t_temp>>

\* the document path and the write mode of the configuration, as
\* validate_path and the write step of the pipeline treat them
VARIABLES
    path_info,          \* what the file system holds at the configured document path
    req_write_mode,     \* config['write_mode'] (absent: the key is not in the configuration)
    path_valid,         \* what validate_path returned for the path ("none": not called)
    write_req,          \* how the write step of the pipeline ended
    req_document,       \* the text of the target document before the write step
    req_content,        \* the generated content handed to write_document
    req_written         \* the text of the target document after the write step

reqVars == <<path_info, req_write_mode, path_valid, write_req, req_document,
             req_content, req_written>>

svcVars == <<cfgVars, textVars, valVars, lockVars, reqVars>>

Monitors == 1..MaxMonitors
StartTime == WindowSeconds + 1
MaxTime == StartTime + MaxTicks
NoRelease == 0 - 1

Live == 1..created

Buttons == {"left", "right"}
Keys == {"enter", "other"}

\* a run is in flight on the keyboard listener thread of instance m
Active(m) == pc[m] # "idle"
NoRunActive == \A m \in Monitors : ~Active(m)

(***************************************************************************)
(* TextMonitorService.__init__ and the application after construction      *)
(***************************************************************************)
DetInit ==
    /\ now = StartTime
    /\ created = 1
    /\ installed = [m \in Monitors |-> "no"]
    /\ running = [m \in Monitors |-> FALSE]
    /\ start_raised = [m \in Monitors |-> FALSE]
    /\ is_selecting = [m \in Monitors |-> FALSE]
    /\ last_select_time = [m \in Monitors |-> 0]
    /\ is_processing = [m \in Monitors |-> FALSE]
    /\ pc = [m \in Monitors |-> "idle"]
    /\ outcome = [m \in Monitors |-> "none"]
    /\ emitted = [m \in Monitors |-> <<>>]
    /\ lastOutcome = "none"
    /\ released = [m \in Monitors |-> NoRelease]
    /\ runsStarted = 0
    /\ idleTriggers = 0
    /\ selection = [m \in Monitors |-> "none"]
    /\ effects = [m \in Monitors |-> {}]

\* the clock advances
Tick ==
    /\ now < MaxTime
    /\ now' = now + 1
    /\ UNCHANGED <<docVars, apiVars, capVars, svcVars, selection, effects, lastOutcome, created, installed, running, start_raised, is_selecting, last_select_time,
                   is_processing, pc, outcome, emitted, released,
                   runsStarted, idleTriggers>>

\* TextMonitorService.start on instance m; ok: both listeners were installed.
\* A failure is caught by the except block of start, which logs it and runs
\* stop() (clears running, stops what was installed); start then returns
\* normally: nothing is raised to its caller.
start(m, ok) ==
    /\ installed' = [installed EXCEPT ![m] = IF ok THEN "ok" ELSE "failed"]
    /\ running' = [running EXCEPT ![m] = ok]
    /\ start_raised' = [start_raised EXCEPT ![m] = FALSE]

\* AIWriteHelperApplication.start: the first instance is started
AppStart ==
    /\ created = 1
    /\ installed[1] = "no"
    /\ \E ok \in BOOLEAN : start(1, ok)
    /\ UNCHANGED <<docVars, apiVars, capVars, svcVars, selection, effects, lastOutcome, now, created, is_selecting, last_select_time, is_processing,
                   pc, outcome, emitted, released, runsStarted, idleTriggers>>

\* AIWriteHelperApplication._on_config_updated: _init_services constructs a
\* new TextMonitorService (the previous instance is neither stopped nor
\* released: its listener threads keep calling its handlers), then starts it.
on_config_updated ==
    /\ installed[1] # "no"
    /\ created < MaxMonitors
    /\ created' = created + 1
    /\ \E ok \in BOOLEAN : start(created + 1, ok)
    /\ UNCHANGED <<docVars, apiVars, capVars, svcVars, selection, effects, lastOutcome, now, is_selecting, last_select_time, is_processing,
                   pc, outcome, emitted, released, runsStarted, idleTriggers>>

\* the instances whose listeners are installed: each of them sees every
\* pointer event
Listening == {m \in Live : installed[m] = "ok"}

\* TextMonitorService._on_mouse_click, run by the mouse listener of every
\* listening instance for one pointer-button event
on_mouse_click(button, pressed) ==
    /\ Listening # {}
    /\ IF button # "left"
         THEN UNCHANGED <<is_selecting, last_select_time, released, selection>>
         ELSE IF pressed
           THEN /\ is_selecting' = [m \in Monitors |->
                                      IF m \in Listening THEN TRUE ELSE is_selecting[m]]
                /\ selection' = [m \in Monitors |->
                                      IF m \in Listening THEN "none" ELSE selection[m]]
                /\ UNCHANGED <<last_select_time, released>>
           ELSE /\ is_selecting' = [m \in Monitors |->
                                      IF m \in Listening THEN FALSE ELSE is_selecting[m]]
                /\ last_select_time' = [m \in Monitors |->
                                      IF m \in Listening THEN now ELSE last_select_time[m]]
                /\ released' = [m \in Monitors |->
                                      IF m \in Listening THEN now ELSE released[m]]
                /\ selection' = [m \in Monitors |->
                                      IF m \notin Listening THEN selection[m]
                                      ELSE IF selection[m] = "scrolled" THEN "cancelled"
                                      ELSE "none"]
    /\ UNCHANGED <<docVars, apiVars, capVars, svcVars, effects, lastOutcome, now, created, installed, running, start_raised, is_processing, pc,
                   outcome, emitted, runsStarted, idleTriggers>>

\* TextMonitorService._on_mouse_scroll, run by the mouse listener of every
\* listening instance for one scroll event
on_mouse_scroll ==
    /\ Listening # {}
    /\ is_selecting' = [m \in Monitors |->
                           IF m \in Listening THEN FALSE ELSE is_selecting[m]]
    /\ selection' = [m \in Monitors |->
                           IF m \in Listening /\ is_selecting[m] THEN "scrolled"
                           ELSE selection[m]]
    /\ UNCHANGED <<docVars, apiVars, capVars, svcVars, effects, lastOutcome, now, created, installed, running, start_raised, last_select_time,
                   is_processing, pc, outcome, emitted, released,
                   runsStarted, idleTriggers>>

\* the window test of _on_key_press: time_diff > 0 and time_diff < 2
InWindowLate(time_diff) == time_diff > 0 /\ time_diff <= WindowSeconds
InWindow(time_diff) == time_diff > 0 /\ time_diff < WindowSeconds

\* the guard of _handle_selection_enter, under the lock: a trigger is
\* accepted iff the instance is not processing
AcceptAlways(m) == TRUE
Accept(m) == ~is_processing[m]

\* TextMonitorService._on_key_press, run by the keyboard listener thread of
\* instance m when it is free, up to and including the locked test-and-set at
\* the head of _handle_selection_enter; the rest of the handler is the
\* pipeline below, on the same thread
on_key_press(m, key) ==
    /\ m \in Listening
    /\ pc[m] = "idle"
    /\ IF key = "enter" /\ InWindow(now - last_select_time[m])
         THEN /\ runsStarted < MaxTriggers
              /\ idleTriggers' = IF NoRunActive THEN idleTriggers + 1 ELSE idleTriggers
              /\ IF Accept(m)
                   THEN /\ is_processing' = [is_processing EXCEPT ![m] = TRUE]
                        /\ pc' = [pc EXCEPT ![m] = "capture"]
                        /\ runsStarted' = runsStarted + 1
                        /\ selection' = [selection EXCEPT ![m] =
                                            IF @ = "none" THEN "consumed" ELSE @]
                   ELSE UNCHANGED <<is_processing, pc, runsStarted, selection>>
         ELSE UNCHANGED <<is_processing, pc, runsStarted, idleTriggers, selection>>
    /\ UNCHANGED <<docVars, apiVars, capVars, svcVars, effects, lastOutcome, now, created, installed, running, start_raised, is_selecting,
                   last_select_time, released, outcome, emitted>>

(***************************************************************************)
(* The pipeline run of _handle_selection_enter, after the flag is taken.   *)
(* Signals: "started", "completed", "failed" and progress texts            *)
(* P_processing, P_generating, P_writing, P_done, P_failed ("已失败"),      *)
(* P_fail ("失败").                                                        *)
(***************************************************************************)
Emit(m, sigs) == emitted' = [emitted EXCEPT ![m] = emitted[m] \o sigs]

\* a capture step that asks the provider before it looks at the selection
pipe_capture_request_first(m) ==
    /\ pc[m] = "capture"
    /\ \E selected \in BOOLEAN :
         IF selected
           THEN /\ Emit(m, <<"started", "P_processing", "P_generating">>)
                /\ pc' = [pc EXCEPT ![m] = "config"]
                /\ UNCHANGED <<outcome, effects>>
           ELSE /\ Emit(m, <<"started", "P_processing", "failed", "P_failed">>)
                /\ pc' = [pc EXCEPT ![m] = "finally"]
                /\ outcome' = [outcome EXCEPT ![m] = "empty_selection"]
                /\ effects' = [effects EXCEPT ![m] = @ \cup {"request"}]
    /\ UNCHANGED <<docVars, apiVars, capVars, svcVars, selection, lastOutcome, now, created, installed, running, start_raised, is_selecting,
                   last_select_time, is_processing, released,
                   runsStarted, idleTriggers>>

\* try: processing_started, progress, _get_selected_text; an empty selection
\* reports the failure and returns (through finally)
pipe_capture(m) ==
    /\ pc[m] = "capture"
    /\ \E selected \in BOOLEAN :
         IF selected
           THEN /\ Emit(m, <<"started", "P_processing", "P_generating">>)
                /\ pc' = [pc EXCEPT ![m] = "config"]
                /\ UNCHANGED outcome
           ELSE /\ Emit(m, <<"started", "P_processing", "failed", "P_failed">>)
                /\ pc' = [pc EXCEPT ![m] = "finally"]
                /\ outcome' = [outcome EXCEPT ![m] = "empty_selection"]
    /\ UNCHANGED <<docVars, apiVars, capVars, svcVars, selection, effects, lastOutcome, now, created, installed, running, start_raised, is_selecting,
                   last_select_time, is_processing, released,
                   runsStarted, idleTriggers>>

\* load_config, the document_path check, read_document (never raises)
pipe_config(m) ==
    /\ pc[m] = "config"
    /\ \E has_path \in BOOLEAN :
         IF has_path
           THEN /\ pc' = [pc EXCEPT ![m] = "generate"]
                /\ UNCHANGED <<docVars, apiVars, capVars, svcVars, selection, effects, lastOutcome, outcome, emitted>>
           ELSE /\ Emit(m, <<"failed", "P_fail">>)
                /\ pc' = [pc EXCEPT ![m] = "finally"]
                /\ outcome' = [outcome EXCEPT ![m] = "no_document_path"]
    /\ UNCHANGED <<docVars, apiVars, capVars, svcVars, selection, effects, lastOutcome, now, created, installed, running, start_raised, is_selecting,
                   last_select_time, is_processing, released,
                   runsStarted, idleTriggers>>

\* how generate_content ends: it returns the content, raises at once because
\* the configuration holds no key for the provider, or raises after a
\* request was sent (authentication failure, retries exhausted, malformed
\* response)
GenerateResults == {"returned", "no_credential", "request_failed"}

\* api_service.generate_content returns or raises (except: processing_failed)
pipe_generate_escape(m) ==
    /\ pc[m] = "generate"
    /\ \E res \in GenerateResults :
         /\ effects' = [effects EXCEPT ![m] =
                           IF res = "no_credential" THEN @ ELSE @ \cup {"request"}]
         /\ IF res = "returned"
              THEN /\ Emit(m, <<"P_writing">>)
                   /\ pc' = [pc EXCEPT ![m] = "write"]
                   /\ UNCHANGED outcome
              ELSE /\ pc' = [pc EXCEPT ![m] = "finally"]
                   /\ outcome' = [outcome EXCEPT ![m] = "generation_error"]
                   /\ UNCHANGED emitted
    /\ UNCHANGED <<docVars, apiVars, capVars, svcVars, selection, lastOutcome, now, created, installed, running, start_raised, is_selecting,
                   last_select_time, is_processing, released,
                   runsStarted, idleTriggers>>
pipe_generate(m) ==
    /\ pc[m] = "generate"
    /\ \E res \in GenerateResults :
         /\ effects' = [effects EXCEPT ![m] =
                           IF res = "no_credential" THEN @ ELSE @ \cup {"request"}]
         /\ IF res = "returned"
              THEN /\ Emit(m, <<"P_writing">>)
                   /\ pc' = [pc EXCEPT ![m] = "write"]
                   /\ UNCHANGED outcome
              ELSE /\ Emit(m, <<"failed">>)
                   /\ pc' = [pc EXCEPT ![m] = "finally"]
                   /\ outcome' = [outcome EXCEPT ![m] = "generation_error"]
    /\ UNCHANGED <<docVars, apiVars, capVars, svcVars, selection, lastOutcome, now, created, installed, running, start_raised, is_selecting,
                   last_select_time, is_processing, released,
                   runsStarted, idleTriggers>>

\* document_service.write_document returns or raises
pipe_write(m) ==
    /\ pc[m] = "write"
    /\ \E ok \in BOOLEAN :
         IF ok
           THEN /\ Emit(m, <<"completed", "P_done">>)
                /\ outcome' = [outcome EXCEPT ![m] = "success"]
           ELSE /\ Emit(m, <<"failed">>)
                /\ outcome' = [outcome EXCEPT ![m] = "write_error"]
    /\ pc' = [pc EXCEPT ![m] = "finally"]
    /\ effects' = [effects EXCEPT ![m] = @ \cup {"write"}]
    /\ UNCHANGED <<docVars, apiVars, capVars, svcVars, selection, lastOutcome, now, created, installed, running, start_raised, is_selecting,
                   last_select_time, is_processing, released,
                   runsStarted, idleTriggers>>

\* finally: with self.lock: self.is_processing = False; the handler returns
\* and the listener thread is free again
pipe_finally_keep(m) ==
    /\ pc[m] = "finally"
    /\ pc' = [pc EXCEPT ![m] = "idle"]
    /\ outcome' = [outcome EXCEPT ![m] = "none"]
    /\ emitted' = [emitted EXCEPT ![m] = <<>>]
    /\ lastOutcome' = outcome[m]
    /\ effects' = [effects EXCEPT ![m] = {}]
    /\ UNCHANGED <<docVars, apiVars, capVars, svcVars, selection, now, created, installed, running, start_raised, is_selecting,
                   last_select_time, is_processing, released, runsStarted,
                   idleTriggers>>
pipe_finally(m) ==
    /\ pc[m] = "finally"
    /\ is_processing' = [is_processing EXCEPT ![m] = FALSE]
    /\ pc' = [pc EXCEPT ![m] = "idle"]
    /\ outcome' = [outcome EXCEPT ![m] = "none"]
    /\ emitted' = [emitted EXCEPT ![m] = <<>>]
    /\ lastOutcome' = outcome[m]
    /\ effects' = [effects EXCEPT ![m] = {}]
    /\ UNCHANGED <<docVars, apiVars, capVars, svcVars, selection, now, created, installed, running, start_raised, is_selecting,
                   last_select_time, released, runsStarted, idleTriggers>>

\* the steps that write a state field inside "with self.lock":
\* _on_mouse_scroll, the test-and-set at the head of
\* _handle_selection_enter, and the finally clause. _on_mouse_click takes no
\* lock, and _on_key_press reads last_select_time before any lock is taken.
WritesUnderLock ==
    \/ on_mouse_scroll
    \/ \E m \in Monitors, k \in Keys : on_key_press(m, k)
    \/ \E m \in Monitors : pipe_finally(m)

PipelineStep(m) ==
    \/ pipe_capture(m)
    \/ pipe_config(m)
    \/ pipe_generate(m)
    \/ pipe_write(m)
    \/ pipe_finally(m)

(***************************************************************************)
(* The document store (services/document.py): one target text file.        *)
(* File data and texts are sequences of characters.                        *)
(***************************************************************************)
Chars == {"a", "\n", "\r"}
Texts == UNION {[1..n -> Chars] : n \in 0..MaxLen}
Missing == [exists |-> FALSE, data |-> <<>>]
File(d) == [exists |-> TRUE, data |-> d]
InitFiles == {<<>>, <<"a">>, <<"a", "\n">>}
NoWrite == [done |-> FALSE, content |-> <<>>, incremental |-> FALSE]
Written(content, incremental) ==
    [done |-> TRUE, content |-> content, incremental |-> incremental]
Unread == [valid |-> FALSE, failed |-> FALSE, raised |-> FALSE, text |-> <<>>]
Unstaged == [set |-> FALSE, data |-> <<>>]

\* str.strip(): whitespace is removed at both ends
IsSpace(c) == c \in {" ", "\t", "\n", "\r"}
RECURSIVE lstrip(_)
lstrip(s) == IF s = <<>> THEN s
             ELSE IF IsSpace(Head(s)) THEN lstrip(Tail(s)) ELSE s
RECURSIVE rstrip(_)
rstrip(s) == IF s = <<>> THEN s
             ELSE IF IsSpace(s[Len(s)]) THEN rstrip(SubSeq(s, 1, Len(s) - 1)) ELSE s
strip_left_only(s) == lstrip(s)
strip(s) == rstrip(lstrip(s))

\* open(path, 'w', encoding='utf-8'): text mode writes "\n" as os.linesep
RECURSIVE WriteTranslate(_, _)
WriteTranslate(os, s) ==
    IF s = <<>> THEN <<>>
    ELSE (IF os = "nt" /\ Head(s) = "\n" THEN <<"\r", "\n">> ELSE <<Head(s)>>)
           \o WriteTranslate(os, Tail(s))

\* open(path, 'r', encoding=...): universal newlines read "\r\n" and "\r" as "\n"
RECURSIVE ReadTranslate(_)
ReadTranslate(d) ==
    IF d = <<>> THEN <<>>
    ELSE IF Head(d) = "\r"
      THEN IF Len(d) >= 2 /\ d[2] = "\n"
             THEN <<"\n">> \o ReadTranslate(SubSeq(d, 3, Len(d)))
             ELSE <<"\n">> \o ReadTranslate(Tail(d))
      ELSE <<Head(d)>> \o ReadTranslate(Tail(d))

\* DocumentService._read_text_file
read_text_file(f) == ReadTranslate(f.data)

\* what the incremental branch of _write_text_file writes between the
\* existing content and the new content
SeparatorNone(existing, content) == <<>>
SeparatorOneNewline(existing, content) ==
    IF existing # <<>> /\ content # <<>> THEN <<"\n">> ELSE <<>>
Separator(existing, content) ==
    IF existing # <<>> /\ content # <<>>
      THEN (IF existing[Len(existing)] # "\n" THEN <<"\n">> ELSE <<>>) \o <<"\n">>
      ELSE <<>>

\* the text _write_text_file writes to the temporary file
StagedText(f, content, incremental) ==
    IF ~incremental
      THEN strip(content)
      ELSE LET existing == IF f.exists THEN read_text_file(f) ELSE <<>>
           IN  existing \o Separator(existing, strip(content)) \o strip(content)

DocInit ==
    /\ os_name \in {"nt", "posix"}
    /\ ext \in {"txt", "docx"}
    /\ docx_lib \in BOOLEAN
    /\ ext = "txt" => docx_lib
    /\ sidecar = Missing
    /\ temp_docx = FALSE
    /\ target \in {Missing} \cup {File(d) : d \in InitFiles}
    /\ temp = Missing
    /\ dpc = "idle"
    /\ w_content = <<>>
    /\ w_incremental = FALSE
    /\ w_err = FALSE
    /\ orig = target
    /\ staged = Unstaged
    /\ lastWrite = NoWrite
    /\ prevWrite = NoWrite
    /\ read = Unread
    /\ crashed = FALSE

\* the document store as the detector specification leaves it
DocIdle ==
    /\ DocInit
    /\ os_name = "posix"
    /\ ext = "txt"
    /\ target = Missing

\* DocumentService.write_document when validate_path fails: ValueError is
\* raised before anything is written
write_invalid ==
    /\ dpc = "idle"
    /\ ~crashed
    /\ orig' = target
    /\ staged' = Unstaged
    /\ read' = Unread
    /\ lastWrite' = NoWrite
    /\ prevWrite' = NoWrite
    /\ UNCHANGED <<detVars, apiVars, capVars, svcVars, os_name, ext, docx_lib, sidecar, temp_docx, target, temp, dpc, w_content,
                   w_incremental, w_err, crashed>>

\* DocumentService.write_document on a valid path, up to the call of
\* _write_text_file; tempfile.mktemp names a fresh temporary file
write_begin(content, incremental) ==
    /\ dpc = "idle"
    /\ ~crashed
    /\ incremental => /\ Len(read_text_file(target)) <= MaxLen
                       /\ Len(read_text_file(sidecar)) <= MaxLen
    /\ orig' = target
    /\ staged' = Unstaged
    /\ read' = Unread
    /\ lastWrite' = NoWrite
    /\ prevWrite' = IF incremental /\ lastWrite.done /\ ~lastWrite.incremental
                      THEN lastWrite ELSE NoWrite
    /\ dpc' = "stage"
    /\ w_content' = content
    /\ w_incremental' = incremental
    /\ temp' = Missing
    /\ temp_docx' = FALSE
    /\ UNCHANGED <<detVars, apiVars, capVars, svcVars, os_name, ext, docx_lib, sidecar, target, w_err, crashed>>

\* DocumentService._write_text_file up to os.fsync: the temporary file is
\* opened, written, flushed and synced (ok), or opening or writing it raises
stage_temp(ok) ==
    /\ dpc = "stage"
    /\ ext = "txt"
    /\ ~crashed
    /\ IF ok
         THEN /\ temp' = File(WriteTranslate(os_name,
                               StagedText(target, w_content, w_incremental)))
              /\ staged' = [set |-> TRUE, data |-> temp'.data]
              /\ dpc' = "staged"
              /\ UNCHANGED w_err
         ELSE /\ temp' \in {Missing, File(<<>>)}
              /\ w_err' = TRUE
              /\ dpc' = "cleanup"
              /\ UNCHANGED staged
    /\ UNCHANGED <<detVars, apiVars, capVars, svcVars, os_name, ext, docx_lib, sidecar, temp_docx, target, w_content, w_incremental, orig,
                   lastWrite, prevWrite, read, crashed>>

\* content.split('\n\n') of _write_docx_file; cur is the piece being read
RECURSIVE SplitBlankLine(_, _)
SplitBlankLine(s, cur) ==
    IF s = <<>> THEN <<cur>>
    ELSE IF Len(s) >= 2 /\ s[1] = "\n" /\ s[2] = "\n"
      THEN <<cur>> \o SplitBlankLine(SubSeq(s, 3, Len(s)), <<>>)
      ELSE SplitBlankLine(Tail(s), Append(cur, Head(s)))

\* doc.add_paragraph(para_text.strip()) for every piece that is not blank;
\* a document is held as the texts of its paragraphs joined by "\n"
RECURSIVE AddParagraphs(_, _)
AddParagraphs(doc, pieces) ==
    IF pieces = <<>> THEN doc
    ELSE IF strip(Head(pieces)) = <<>>
      THEN AddParagraphs(doc, Tail(pieces))
      ELSE AddParagraphs((IF doc = <<>> THEN <<>> ELSE doc \o <<"\n">>)
                            \o strip(Head(pieces)), Tail(pieces))

\* the document _write_docx_file saves; readable: docx.Document(target_path)
\* opens the existing file
StagedDocx(f, content, incremental, readable) ==
    AddParagraphs(IF incremental /\ f.exists /\ readable THEN f.data ELSE <<>>,
                  SplitBlankLine(strip(content), <<>>))

\* DocumentService._write_docx_file with python-docx installed, up to
\* doc.save(temp_path + '.docx')
docx_stage(ok, readable) ==
    /\ dpc = "stage"
    /\ ext = "docx"
    /\ docx_lib
    /\ ~crashed
    /\ temp_docx' = TRUE
    /\ IF ok
         THEN /\ temp' = File(StagedDocx(target, w_content, w_incremental, readable))
              /\ staged' = [set |-> TRUE, data |-> temp'.data]
              /\ dpc' = "staged"
              /\ UNCHANGED w_err
         ELSE /\ temp' \in {Missing, File(<<>>)}
              /\ w_err' = TRUE
              /\ dpc' = "cleanup"
              /\ UNCHANGED staged
    /\ UNCHANGED <<detVars, apiVars, capVars, svcVars, os_name, ext, docx_lib, sidecar, target,
                   w_content, w_incremental, orig, lastWrite, prevWrite, read,
                   crashed>>

\* DocumentService._write_docx_file without python-docx: except ImportError
\* runs _write_text_file(temp_path, target_path + '.txt', ...), which writes
\* the other file and leaves the target alone; moved: the temporary file was
\* moved by the replace (it stays behind when the copy fallback ran)
docx_import_error(ok, moved) ==
    /\ dpc = "stage"
    /\ ext = "docx"
    /\ ~docx_lib
    /\ ~crashed
    /\ IF ok
         THEN /\ sidecar' = File(WriteTranslate(os_name,
                                  StagedText(sidecar, w_content, w_incremental)))
              /\ staged' = [set |-> TRUE, data |-> sidecar'.data]
              /\ temp' = IF moved THEN Missing ELSE sidecar'
              /\ UNCHANGED w_err
         ELSE /\ temp' = IF moved THEN Missing ELSE File(<<>>)
              /\ w_err' = TRUE
              /\ UNCHANGED <<sidecar, staged>>
    /\ dpc' = "cleanup"
    /\ UNCHANGED <<detVars, apiVars, capVars, svcVars, os_name, ext, docx_lib, temp_docx, target,
                   w_content, w_incremental, orig, lastWrite, prevWrite, read,
                   crashed>>

\* DocumentService._atomic_replace, os.name != 'nt': os.replace
replace_posix(ok) ==
    /\ dpc = "staged"
    /\ os_name = "posix"
    /\ ~crashed
    /\ IF ok
         THEN /\ target' = temp
              /\ temp' = Missing
              /\ dpc' = "cleanup"
         ELSE /\ dpc' = "copy_open"
              /\ UNCHANGED <<target, temp>>
    /\ UNCHANGED <<detVars, apiVars, capVars, svcVars, os_name, ext, docx_lib, sidecar, temp_docx, w_content, w_incremental, w_err, orig,
                   staged, lastWrite, prevWrite, read, crashed>>

\* DocumentService._atomic_replace, os.name == 'nt': os.remove of an existing
\* target
nt_remove(ok) ==
    /\ dpc = "staged"
    /\ os_name = "nt"
    /\ ~crashed
    /\ IF ~target.exists
         THEN /\ dpc' = "nt_move"
              /\ UNCHANGED target
         ELSE IF ok
           THEN /\ target' = Missing
                /\ dpc' = "nt_move"
           ELSE /\ dpc' = "copy_open"
                /\ UNCHANGED target
    /\ UNCHANGED <<detVars, apiVars, capVars, svcVars, os_name, ext, docx_lib, sidecar, temp_docx, temp, w_content, w_incremental, w_err,
                   orig, staged, lastWrite, prevWrite, read, crashed>>

\* DocumentService._atomic_replace, os.name == 'nt': shutil.move
nt_move(ok) ==
    /\ dpc = "nt_move"
    /\ ~crashed
    /\ IF ok
         THEN /\ target' = temp
              /\ temp' = Missing
              /\ dpc' = "cleanup"
         ELSE /\ dpc' = "copy_open"
              /\ UNCHANGED <<target, temp>>
    /\ UNCHANGED <<detVars, apiVars, capVars, svcVars, os_name, ext, docx_lib, sidecar, temp_docx, w_content, w_incremental, w_err, orig,
                   staged, lastWrite, prevWrite, read, crashed>>

\* the except branch of _atomic_replace: shutil.copy2 opens the target for
\* writing, which truncates it
copy_open(ok) ==
    /\ dpc = "copy_open"
    /\ ~crashed
    /\ IF ok
         THEN /\ target' = File(<<>>)
              /\ dpc' = "copying"
              /\ UNCHANGED w_err
         ELSE /\ w_err' = TRUE
              /\ dpc' = "cleanup"
              /\ UNCHANGED target
    /\ UNCHANGED <<detVars, apiVars, capVars, svcVars, os_name, ext, docx_lib, sidecar, temp_docx, temp, w_content, w_incremental, orig,
                   staged, lastWrite, prevWrite, read, crashed>>

\* shutil.copy2 copies the temporary file into the target piece by piece
copy_write(ok) ==
    /\ dpc = "copying"
    /\ ~crashed
    /\ IF Len(target.data) = Len(temp.data)
         THEN /\ dpc' = "cleanup"
              /\ UNCHANGED <<target, w_err>>
         ELSE IF ok
           THEN /\ target' = File(SubSeq(temp.data, 1, Len(target.data) + 1))
                /\ UNCHANGED <<dpc, w_err>>
           ELSE /\ w_err' = TRUE
                /\ dpc' = "cleanup"
                /\ UNCHANGED target
    /\ UNCHANGED <<detVars, apiVars, capVars, svcVars, os_name, ext, docx_lib, sidecar, temp_docx, temp, w_content, w_incremental, orig,
                   staged, lastWrite, prevWrite, read, crashed>>

\* the finally clause of write_document: the file named temp_path is
\* unlinked if it exists (a failure is logged; a file named
\* temp_path + '.docx' is not looked at); the call returns, or raises and
\* breaks the history of successful writes
write_end(ok) ==
    /\ dpc = "cleanup"
    /\ ~crashed
    /\ temp' = IF temp.exists /\ (temp_docx \/ ~ok) THEN temp ELSE Missing
    /\ lastWrite' = IF w_err THEN NoWrite ELSE Written(w_content, w_incremental)
    /\ prevWrite' = IF w_err THEN NoWrite ELSE prevWrite
    /\ dpc' = "idle"
    /\ w_content' = <<>>
    /\ w_incremental' = FALSE
    /\ w_err' = FALSE
    /\ UNCHANGED <<detVars, apiVars, capVars, svcVars, os_name, ext, docx_lib, sidecar, temp_docx, target, orig, staged, read, crashed>>

\* what DocumentService.read_document gives its caller for file f with
\* extension e. ok: opening, decoding and parsing the file all succeed. The
\* body is inside try / except Exception, which returns ""; a missing file
\* fails in os.path.getsize, a zero-length file returns "" before it is
\* opened, and a docx document reads as its paragraphs joined by "\n"
read_result_raising(f, e, ok) ==
    [valid |-> TRUE,
     failed |-> ~ok,
     raised |-> ~ok \/ ~f.exists,
     text |-> IF ~f.exists \/ Len(f.data) = 0 \/ ~ok THEN <<>>
              ELSE IF e = "txt" THEN read_text_file(f)
              ELSE f.data]
read_result(f, e, ok) ==
    [valid |-> TRUE,
     failed |-> ~ok,
     raised |-> FALSE,
     text |-> IF ~f.exists \/ Len(f.data) = 0 \/ ~ok THEN <<>>
              ELSE IF e = "txt" THEN read_text_file(f)
              ELSE f.data]

\* DocumentService.read_document on the target, under the lock of the
\* service
read_document(ok) ==
    /\ dpc = "idle"
    /\ ~crashed
    /\ read' = read_result(target, ext, ok)
    /\ UNCHANGED <<detVars, apiVars, capVars, svcVars, os_name, ext, docx_lib, sidecar, temp_docx, target, temp, dpc, w_content,
                   w_incremental, w_err, orig, staged, lastWrite, prevWrite,
                   crashed>>

\* the process is killed during a write
Crash ==
    /\ dpc # "idle"
    /\ ~crashed
    /\ crashed' = TRUE
    /\ UNCHANGED <<detVars, apiVars, capVars, svcVars, os_name, ext, docx_lib, sidecar, temp_docx, target, temp, dpc, w_content,
                   w_incremental, w_err, orig, staged, lastWrite, prevWrite,
                   read>>

(***************************************************************************)
(* Two threads calling write_document on one DocumentService, for a text   *)
(* target: the body of write_document runs inside "with self.lock".        *)
(***************************************************************************)
Threads == {1, 2}
\* the content each thread writes: its own character, alone or with a
\* newline after it
CallTexts(t) ==
    LET c == IF t = 1 THEN "x" ELSE "y" IN {<<c>>, <<c, "\n">>}

docRest == <<os_name, ext, docx_lib, sidecar, temp_docx, temp, dpc, w_content,
             w_incremental, w_err, orig, staged, lastWrite, prevWrite, read, crashed>>

LockIdle ==
    /\ lock_owner = 0
    /\ tpc = [t \in Threads |-> "idle"]
    /\ t_content = [t \in Threads |-> <<>>]
    /\ t_incremental = [t \in Threads |-> FALSE]
    /\ t_temp = [t \in Threads |-> <<>>]

\* thread t calls write_document(file_path, content, incremental) and comes
\* to "with self.lock"
call_write(t, content, incremental) ==
    /\ tpc[t] = "idle"
    /\ tpc' = [tpc EXCEPT ![t] = "waiting"]
    /\ t_content' = [t_content EXCEPT ![t] = content]
    /\ t_incremental' = [t_incremental EXCEPT ![t] = incremental]
    /\ UNCHANGED <<detVars, docVars, apiVars, capVars, cfgVars, textVars, valVars, reqVars,
                   lock_owner, t_temp>>

\* RLock.acquire by thread t: the lock is free, or t holds it already
can_acquire_always(owner, t) == TRUE
can_acquire(owner, t) == owner \in {0, t}

\* "with self.lock" is entered
acquire(t) ==
    /\ tpc[t] = "waiting"
    /\ can_acquire(lock_owner, t)
    /\ lock_owner' = t
    /\ tpc' = [tpc EXCEPT ![t] = "locked"]
    /\ UNCHANGED <<detVars, docVars, apiVars, capVars, cfgVars, textVars, valVars, reqVars,
                   t_content, t_incremental, t_temp>>

\* _write_text_file reads the existing content and writes the temporary file
write_temp(t) ==
    /\ tpc[t] = "locked"
    /\ t_temp' = [t_temp EXCEPT ![t] =
                    WriteTranslate(os_name, StagedText(target, t_content[t], t_incremental[t]))]
    /\ tpc' = [tpc EXCEPT ![t] = "staged"]
    /\ UNCHANGED <<detVars, docVars, apiVars, capVars, cfgVars, textVars, valVars, reqVars,
                   lock_owner, t_content, t_incremental>>

\* _atomic_replace moves the temporary file over the target
replace_target(t) ==
    /\ tpc[t] = "staged"
    /\ target' = File(t_temp[t])
    /\ tpc' = [tpc EXCEPT ![t] = "replaced"]
    /\ UNCHANGED <<detVars, docRest, apiVars, capVars, cfgVars, textVars, valVars, reqVars,
                   lock_owner, t_content, t_incremental, t_temp>>

\* the with statement is left: write_document returns, or it raises what
\* opening the temporary file or replacing the target raised
leave(t, to) ==
    /\ to = "returned" => tpc[t] = "replaced"
    /\ to = "raised" => tpc[t] \in {"locked", "staged"}
    /\ lock_owner' = IF lock_owner = t THEN 0 ELSE lock_owner
    /\ tpc' = [tpc EXCEPT ![t] = to]
    /\ UNCHANGED <<detVars, docVars, apiVars, capVars, cfgVars, textVars, valVars, reqVars,
                   t_content, t_incremental, t_temp>>

(***************************************************************************)
(* The retry engine (services/api.py): one caller of _send_request.        *)
(***************************************************************************)
\* what one session.post can meet: a status code (200 with a body that is
\* or is not JSON), a timeout, or another transport error
Responses == {"200", "200_bad_json", "401", "404", "429", "500", "timeout", "network"}

RECURSIVE Pow(_, _)
Pow(b, e) == IF e = 0 THEN 1 ELSE b * Pow(b, e - 1)

\* wait_time = delay * (RETRY_BACKOFF ** (retry_count - 1)), in milliseconds
wait_time_next(rc) ==
    (RETRY_DELAY * 1000 * Pow(RETRY_BACKOFF[1], rc)) \div Pow(RETRY_BACKOFF[2], rc)
wait_time(rc) ==
    (RETRY_DELAY * 1000 * Pow(RETRY_BACKOFF[1], rc - 1))
       \div Pow(RETRY_BACKOFF[2], rc - 1)

\* the body of the try statement and its except clauses: what becomes of one
\* response. json_is_request_error: the exception response.json() raises on a
\* body that is not JSON is a RequestException in the installed requests
handle_retry_5xx(r, json_is_request_error) ==
    CASE r = "200" -> "returned"
      [] r = "200_bad_json" -> IF json_is_request_error THEN "retry" ELSE "json_error"
      [] r = "401" -> "auth_error"
      [] r = "404" -> "http_error"
      [] r = "429" -> "retry"
      [] r = "500" -> "retry"
      [] r = "timeout" -> "retry"
      [] r = "network" -> "retry"
handle_retry_401(r, json_is_request_error) ==
    CASE r = "200" -> "returned"
      [] r = "200_bad_json" -> IF json_is_request_error THEN "retry" ELSE "json_error"
      [] r = "401" -> "retry"
      [] r = "404" -> "http_error"
      [] r = "429" -> "retry"
      [] r = "500" -> "http_error"
      [] r = "timeout" -> "retry"
      [] r = "network" -> "retry"
handle(r, json_is_request_error) ==
    CASE r = "200" -> "returned"
      [] r = "200_bad_json" -> IF json_is_request_error THEN "retry" ELSE "json_error"
      [] r = "401" -> "auth_error"
      [] r = "404" -> "http_error"
      [] r = "429" -> "retry"
      [] r = "500" -> "http_error"
      [] r = "timeout" -> "retry"
      [] r = "network" -> "retry"

ApiIdle ==
    /\ apc = "idle"
    /\ retry_count = 0
    /\ attempts = 0
    /\ responses = <<>>
    /\ sleeps = <<>>
    /\ result = "none"
    /\ cfg_write_mode = "incremental"
    /\ template = "none"

WriteModes == {"incremental", "overwrite", "cursor"}

\* the write_mode argument generate_content receives from
\* _handle_selection_enter: the call passes selected_text, document_content
\* and theme_prompt only, so the parameter takes its default
pipeline_write_mode(cfg) == "incremental"

\* the template _construct_prompt selects for write_mode
select_template(write_mode) ==
    IF write_mode = "overwrite" THEN "REWRITE_PROMPT_TEMPLATE"
    ELSE IF write_mode = "cursor" THEN "CURSOR_PROMPT_TEMPLATE"
    ELSE "INCREMENTAL_PROMPT_TEMPLATE"

\* APIService.generate_content, called by a pipeline run whose configuration
\* has write_mode = cfg, up to the call of _send_request; the history of the
\* previous request ends here
generate_content(cfg) ==
    /\ apc \in {"idle", "done"}
    /\ ~validating
    /\ cfg_write_mode' = cfg
    /\ template' = select_template(pipeline_write_mode(cfg))
    /\ apc' = "prompt"
    /\ retry_count' = 0
    /\ attempts' = 0
    /\ responses' = <<>>
    /\ sleeps' = <<>>
    /\ result' = "none"
    /\ UNCHANGED <<detVars, docVars, capVars, svcVars>>

\* APIService._send_request is called, by generate_content with its prompt
\* or by validate_key with a fixed test prompt: the request is built and
\* retry_count = 0
send_request ==
    /\ apc \in {"idle", "done", "prompt"}
    /\ ~validating
    /\ template' = IF apc = "prompt" THEN template ELSE "none"
    /\ UNCHANGED cfg_write_mode
    /\ apc' = "loop"
    /\ retry_count' = 0
    /\ attempts' = 0
    /\ responses' = <<>>
    /\ sleeps' = <<>>
    /\ result' = "none"
    /\ UNCHANGED <<detVars, docVars, capVars, svcVars>>

\* while retry_count < self.MAX_RETRIES, and the raise after the loop
loop_test_one_more ==
    /\ apc = "loop"
    /\ IF retry_count <= MAX_RETRIES
         THEN /\ apc' = "post"
              /\ UNCHANGED result
         ELSE /\ apc' = "done"
              /\ result' = "exhausted"
    /\ UNCHANGED <<detVars, docVars, capVars, svcVars, promptVars, retry_count, attempts, responses, sleeps>>
loop_test ==
    /\ apc = "loop"
    /\ IF retry_count < MAX_RETRIES
         THEN /\ apc' = "post"
              /\ UNCHANGED result
         ELSE /\ apc' = "done"
              /\ result' = "exhausted"
    /\ UNCHANGED <<detVars, docVars, capVars, svcVars, promptVars, retry_count, attempts, responses, sleeps>>

\* one pass through the try statement: session.post, raise_for_status,
\* response.json() and the except clauses up to time.sleep
post(r, json_is_request_error) ==
    /\ apc = "post"
    /\ attempts' = attempts + 1
    /\ responses' = Append(responses, r)
    /\ IF handle(r, json_is_request_error) = "retry"
         THEN /\ retry_count' = retry_count + 1
              /\ apc' = "sleep"
              /\ UNCHANGED result
         ELSE /\ result' = handle(r, json_is_request_error)
              /\ apc' = "done"
              /\ UNCHANGED retry_count
    /\ UNCHANGED <<detVars, docVars, capVars, svcVars, promptVars, sleeps>>

\* time.sleep(wait_time); continue
sleep_continue ==
    /\ apc = "sleep"
    /\ sleeps' = Append(sleeps, wait_time(retry_count))
    /\ apc' = "loop"
    /\ UNCHANGED <<detVars, docVars, capVars, svcVars, promptVars, retry_count, attempts, responses, result>>

\* the JSON body of a 200 answer, as validate_key looks at it: it has a
\* non-empty "choices" ("output" for qianwen), or it has not
Shapes == {"well_formed", "no_choices"}

NotValidated == [value |-> "none", result |-> "none", shape |-> "none"]

ValIdle ==
    /\ validating = FALSE
    /\ key_valid = NotValidated

\* what validate_key does with the end of its _send_request: a returned
\* body is tested for its shape; the ValueError raised for a 401 and the
\* Exception raised after the last retry reach "except Exception: raise";
\* an HTTPError reaches "except RequestException", where e.response is falsy
\* for an error status, so it is raised again too
key_outcome(res, shape) ==
    CASE res = "returned" -> IF shape = "well_formed" THEN "true" ELSE "false"
      [] OTHER -> "raised"

\* APIService.validate_key up to its call of _send_request with the test
\* prompt
validate_key ==
    /\ apc \in {"idle", "done"}
    /\ ~validating
    /\ validating' = TRUE
    /\ key_valid' = NotValidated
    /\ template' = "none"
    /\ UNCHANGED cfg_write_mode
    /\ apc' = "loop"
    /\ retry_count' = 0
    /\ attempts' = 0
    /\ responses' = <<>>
    /\ sleeps' = <<>>
    /\ result' = "none"
    /\ UNCHANGED <<detVars, docVars, capVars, cfgVars, textVars, lockVars, reqVars>>

\* APIService.validate_key after _send_request has returned or raised
validate_key_end(shape) ==
    /\ validating
    /\ apc = "done"
    /\ validating' = FALSE
    /\ key_valid' = [value |-> key_outcome(result, shape), result |-> result,
                     shape |-> IF result = "returned" THEN shape ELSE "none"]
    /\ UNCHANGED <<detVars, docVars, capVars, cfgVars, textVars, lockVars, reqVars, apiVars>>

(***************************************************************************)
(* Selection capture (TextMonitorService._get_selected_text): one caller.  *)
(***************************************************************************)
Systems == {"Windows", "Darwin", "Linux"}

\* what the selection can be, after strip()
ClipTexts == {"a", "b"}

\* what one clipboard read gives: the command raises, ends with a non-zero
\* return code, prints nothing but whitespace, or prints a text
ReadOutcomes == {"raise", "nonzero", "empty"} \cup ClipTexts

\* time.sleep(retry_delay * (retry + 1))
settle_delay_flat(r) == retry_delay
settle_delay(r) == retry_delay * (r + 1)

CapIdle ==
    /\ system = "Windows"
    /\ cpc = "idle"
    /\ retry = 0
    /\ cap_attempts = 0
    /\ settles = <<>>
    /\ reads = <<>>
    /\ captured = ""
    /\ cap_raised = FALSE

CapInit ==
    /\ system \in Systems
    /\ cpc = "idle"
    /\ retry = 0
    /\ cap_attempts = 0
    /\ settles = <<>>
    /\ reads = <<>>
    /\ captured = ""
    /\ cap_raised = FALSE

\* _get_selected_text is called: platform.system() selects the branch; an
\* unsupported system returns ""
capture_begin ==
    /\ cpc \in {"idle", "done"}
    /\ retry' = 0
    /\ cap_attempts' = 0
    /\ settles' = <<>>
    /\ reads' = <<>>
    /\ captured' = ""
    /\ cpc' = CASE system = "Windows" -> "copy"
                [] system = "Darwin" -> "mac"
                [] OTHER -> "done"
    /\ UNCHANGED <<detVars, docVars, apiVars, svcVars, system, cap_raised>>

\* the end of one pass of "for retry in range(max_retries + 1)" that did not
\* return: the next pass, or "return ''" after the loop
NextPass ==
    IF retry < max_retries
      THEN /\ retry' = retry + 1
           /\ cpc' = "copy"
           /\ UNCHANGED captured
      ELSE /\ cpc' = "done"
           /\ captured' = ""
           /\ UNCHANGED retry

\* Windows: the simulated Ctrl+C of one pass; an exception is caught by the
\* except clause of the pass
win_copy(ok) ==
    /\ cpc = "copy"
    /\ cap_attempts' = cap_attempts + 1
    /\ IF ok
         THEN /\ cpc' = "settle"
              /\ UNCHANGED <<retry, captured>>
         ELSE NextPass
    /\ UNCHANGED <<detVars, docVars, apiVars, svcVars, system, settles, reads, cap_raised>>

\* Windows: the settle sleep of the pass
win_settle ==
    /\ cpc = "settle"
    /\ settles' = Append(settles, settle_delay(retry))
    /\ cpc' = "read"
    /\ UNCHANGED <<detVars, docVars, apiVars, svcVars, system, retry, cap_attempts, reads,
                   captured, cap_raised>>

\* Windows: powershell Get-Clipboard; a text that is not empty after strip()
\* is returned
win_read(out) ==
    /\ cpc = "read"
    /\ reads' = Append(reads, out)
    /\ IF out \in ClipTexts
         THEN /\ captured' = out
              /\ cpc' = "done"
              /\ UNCHANGED retry
         ELSE NextPass
    /\ UNCHANGED <<detVars, docVars, apiVars, svcVars, system, cap_attempts, settles,
                   cap_raised>>

\* macOS: Command+C, then pbpaste with check=True; any exception reaches the
\* outer except clause, which returns ""
mac_capture(out) ==
    /\ cpc = "mac"
    /\ cap_attempts' = 1
    /\ reads' = Append(reads, out)
    /\ captured' = IF out \in ClipTexts THEN out ELSE ""
    /\ cpc' = "done"
    /\ UNCHANGED <<detVars, docVars, apiVars, svcVars, system, retry, settles, cap_raised>>

(***************************************************************************)
(* The configuration (core/config_manager.py) and its callers              *)
(***************************************************************************)
\* APIService.SERVICE_*: the providers of the service combo box
Services == {"deepseek", "doubao", "kimi", "qianwen"}
\* the credentials a user can type
Secrets == {"k1"}
\* a key that a dict or the JSON object does not have
NoField == "<absent>"

\* ConfigManager.encrypt / decrypt: a Fernet token is not the text it hides
encrypt(data) == <<"fernet", data>>
decrypt(encrypted_data) == encrypted_data[2]

\* ConfigManager.default_config, restricted to the credential fields
default_config ==
    [ai_service |-> NoField,
     api_key |-> "",
     keys |-> [s \in Services |-> NoField]]

NoConfigFile ==
    [exists |-> FALSE, ai_service |-> NoField, api_key |-> NoField,
     api_key_encrypted |-> NoField, keys |-> [s \in Services |-> NoField]]

\* what ConfigManager.save_config writes for config: "api_key", when it is
\* non-empty, is replaced by "api_key_encrypted"; every other entry of the
\* dict is dumped as it is
save_config(config) ==
    [exists |-> TRUE,
     ai_service |-> config.ai_service,
     api_key |-> IF config.api_key \notin {"", NoField} THEN NoField ELSE config.api_key,
     api_key_encrypted |-> IF config.api_key \notin {"", NoField}
                             THEN encrypt(config.api_key) ELSE NoField,
     keys |-> config.keys]

\* ConfigManager.load_config: the defaults when there is no file; otherwise
\* the entries of the file over the defaults, with "api_key_encrypted"
\* decrypted into "api_key"
load_config(f) ==
    IF ~f.exists THEN default_config
    ELSE [ai_service |-> f.ai_service,
          api_key |-> IF f.api_key_encrypted # NoField THEN decrypt(f.api_key_encrypted)
                      ELSE IF f.api_key # NoField THEN f.api_key
                      ELSE default_config.api_key,
          keys |-> f.keys]

\* the document paths, and the recent lists tried: the paths j, j - 1, ..., i
\* used in this order from an empty list
DocumentPaths == 1..(max_recent + 1)
Descending(j, i) == [k \in 1..(j - i + 1) |-> j - k + 1]
RecentLists(longest) ==
    {<<>>} \cup {Descending(q[1], q[2]) :
                   q \in {r \in DocumentPaths \X DocumentPaths :
                            r[2] <= r[1] /\ r[1] - r[2] < longest}}

\* recent_docs.remove(document_path): the first occurrence is taken out
RECURSIVE remove(_, _)
remove(list, x) ==
    IF list = <<>> THEN <<>>
    ELSE IF Head(list) = x THEN Tail(list)
    ELSE <<Head(list)>> \o remove(Tail(list), x)

\* if document_path in recent_docs: recent_docs.remove(document_path);
\* recent_docs.insert(0, document_path)
move_to_front_keep_old(recent_docs, document_path) == <<document_path>> \o recent_docs
move_to_front(recent_docs, document_path) ==
    <<document_path>> \o remove(recent_docs, document_path)

\* if len(recent_docs) > max_recent: recent_docs = recent_docs[:max_recent]
limit(recent_docs) ==
    IF Len(recent_docs) > max_recent THEN SubSeq(recent_docs, 1, max_recent)
    ELSE recent_docs

NoRecentFile == [exists |-> FALSE, list |-> <<>>]

RecentIdle ==
    /\ recent_documents = NoRecentFile
    /\ default_recent = <<>>
    /\ updates = 0

\* before a call of _update_recent_documents: either config.json holds a
\* list, or there is no file (no save succeeded so far) and the list of
\* default_config holds the paths of the calls made
RecentInit ==
    /\ \/ /\ recent_documents \in {[exists |-> TRUE, list |-> l] : l \in RecentLists(max_recent)}
          /\ default_recent = <<>>
       \/ /\ recent_documents = NoRecentFile
          /\ default_recent \in RecentLists(max_recent + 1)
    /\ updates = 0

\* ConfigManager._update_recent_documents. load_config returns a shallow
\* copy of default_config when there is no file, so that the list changed
\* in place is the one of default_config; ok: save_config wrote the file
\* (a failure is logged and the call returns)
update_recent_documents(document_path, ok) ==
    /\ updates < MaxUpdates
    /\ updates' = updates + 1
    /\ LET recent_docs == IF recent_documents.exists THEN recent_documents.list
                          ELSE default_recent
           moved == move_to_front(recent_docs, document_path)
       IN /\ default_recent' = IF recent_documents.exists THEN default_recent ELSE moved
          /\ recent_documents' = IF ok THEN [exists |-> TRUE, list |-> limit(moved)]
                                 ELSE recent_documents
    /\ UNCHANGED <<detVars, docVars, apiVars, capVars, textVars, valVars, reqVars, lockVars, ui_config, config_file, used_key>>

CfgInit ==
    /\ config_file = NoConfigFile
    /\ ui_config = load_config(config_file)
    /\ used_key = NoField
    /\ RecentIdle

\* MainWindow.save_config with the service combo on ai_service and api_key
\* typed in the key field (an empty key returns after a warning). ok: the
\* file could be written. A successful ConfigManager.save_config goes on to
\* _update_recent_documents, which loads the file just written and saves it
\* again with the new list.
ui_save_config(ai_service, api_key, ok) ==
    /\ api_key # ""
    /\ ui_config' = [ui_config EXCEPT !.ai_service = ai_service,
                                      !.keys[ai_service] = api_key]
    /\ config_file' = IF ok THEN save_config(load_config(save_config(ui_config')))
                      ELSE config_file
    /\ UNCHANGED <<detVars, docVars, apiVars, capVars, textVars, valVars, reqVars, lockVars, used_key, recentVars>>

\* AIWriteHelperApplication.initialize and _on_config_updated:
\* self.config = self.config_manager.load_config()
app_load_config ==
    /\ ui_config' = load_config(config_file)
    /\ UNCHANGED <<detVars, docVars, apiVars, capVars, textVars, valVars, reqVars, lockVars, config_file, used_key, recentVars>>

\* the head of APIService.generate_content: the key of the configured
\* provider is read from a fresh load_config()
read_api_key ==
    /\ LET config == load_config(config_file)
           service == IF config.ai_service = NoField THEN "deepseek"
                      ELSE config.ai_service
       IN used_key' = config.keys[service]
    /\ UNCHANGED <<detVars, docVars, apiVars, capVars, textVars, valVars, reqVars, lockVars, ui_config, config_file, recentVars>>

(***************************************************************************)
(* The document text of the prompt (APIService._construct_prompt).         *)
(* A document is the sequence of its character positions 1..n, so that a   *)
(* slice shows which characters it kept; a character of the elision marker *)
(* is 0.                                                                   *)
(***************************************************************************)
max_doc_length == 4000
\* len("\n...[内容过长，已省略部分]...\n")
MarkerLength == 20
ElisionMarker == [i \in 1..MarkerLength |-> 0]

Document(n) == [i \in 1..n |-> i]
\* the lengths of the documents tried: around the limit, and far from it
DocLengths == {0, 1, 9000} \cup ((max_doc_length - 60)..(max_doc_length + 60))

\* document_content[:k] and document_content[-k:] for 0 < k <= len
Prefix(d, k) == SubSeq(d, 1, k)
Suffix(d, k) == SubSeq(d, Len(d) - k + 1, Len(d))

\* the first statement of _construct_prompt
truncate_document(d) ==
    IF Len(d) > max_doc_length
      THEN LET half_max == max_doc_length \div 2
           IN Prefix(d, half_max) \o ElisionMarker \o Suffix(d, half_max)
      ELSE d

\* the three placeholders of the prompt templates, one element each
SelectedTextToken == "{selected_text}"
DocumentContentToken == "{document_content}"
ThemePromptToken == "{theme_prompt}"
\* a stretch of the fixed text of a template
TemplateText == "<template text>"
\* the default theme text used for an empty theme_prompt
DefaultTheme == <<"<default theme>">>

\* the three templates have the same shape: fixed text around the three
\* placeholders, in this order, each occurring once
PromptTemplate ==
    <<TemplateText, SelectedTextToken, TemplateText, DocumentContentToken,
      TemplateText, ThemePromptToken, TemplateText>>

\* s.replace(old, new), old being one element
RECURSIVE replace(_, _, _)
replace(s, old, new) ==
    IF s = <<>> THEN <<>>
    ELSE IF Head(s) = old THEN new \o replace(Tail(s), old, new)
    ELSE <<Head(s)>> \o replace(Tail(s), old, new)

\* if not theme_prompt.strip(): theme_prompt = <default>
theme_or_default(theme) == IF strip(theme) = <<>> THEN DefaultTheme ELSE theme

\* template.replace("{selected_text}", ...).replace("{document_content}", ...)
\*         .replace("{theme_prompt}", ...)
substitute(tmpl, selected, document, theme) ==
    replace(replace(replace(tmpl, SelectedTextToken, selected),
                    DocumentContentToken, document),
            ThemePromptToken, theme)

\* the texts a user can select, keep in the document or give as a theme:
\* ordinary characters and the texts of placeholders
PromptTexts ==
    UNION {[1..n -> {"x", DocumentContentToken, ThemePromptToken}] : n \in 0..MaxLen}

TruncIdle ==
    /\ document_content = <<>>
    /\ prompt_document = <<>>
    /\ constructed = FALSE
    /\ selected_text = <<>>
    /\ theme_prompt = <<>>
    /\ prompt = <<>>
    /\ substituted = FALSE

TruncInit ==
    /\ document_content \in {Document(n) : n \in DocLengths}
    /\ prompt_document = <<>>
    /\ constructed = FALSE
    /\ selected_text = <<>>
    /\ theme_prompt = <<>>
    /\ prompt = <<>>
    /\ substituted = FALSE

\* a call of _construct_prompt by generate_content: the selection is not
\* empty (the pipeline returns before on an empty one)
PromptInit ==
    /\ document_content \in PromptTexts
    /\ prompt_document = <<>>
    /\ constructed = FALSE
    /\ selected_text \in PromptTexts \ {<<>>}
    /\ theme_prompt \in PromptTexts
    /\ prompt = <<>>
    /\ substituted = FALSE

\* APIService._construct_prompt, as far as the document text goes
construct_prompt ==
    /\ ~constructed
    /\ prompt_document' = truncate_document(document_content)
    /\ constructed' = TRUE
    /\ UNCHANGED <<detVars, docVars, apiVars, capVars, cfgVars, valVars, reqVars, lockVars, cleanVars, parseVars, document_content,
                   selected_text, theme_prompt, prompt, substituted>>

\* the rest of _construct_prompt: the default theme, the template and the
\* chain of replace calls; the prompt is returned
template_replace ==
    /\ constructed
    /\ ~substituted
    /\ prompt' = substitute(PromptTemplate, selected_text, prompt_document,
                            theme_or_default(theme_prompt))
    /\ substituted' = TRUE
    /\ UNCHANGED <<detVars, docVars, apiVars, capVars, cfgVars, valVars, reqVars, lockVars, cleanVars, parseVars, document_content,
                   prompt_document, constructed, selected_text, theme_prompt>>

(***************************************************************************)
(* Content cleaning (APIService._clean_generated_content). A content is a  *)
(* sequence of characters; a fence, a boundary phrase and the heading      *)
(* prefix are one element each.                                            *)
(***************************************************************************)
\* three backquotes, the text tested by startswith
Fence == "<fence>"
\* one of the texts of remove_patterns
Phrase == "<remove_pattern>"
\* the prefix tested by startswith('## ')
Heading == "## "
\* the marker of a level-one heading, which no test of the loop looks for
Heading1 == "# "
Digits == {"1"}

\* the lines a generated content is made of
LineKinds ==
    {<<>>, <<".">>, <<" ", Fence, ".">>, <<".", Phrase>>, <<Heading, ".">>,
     <<Heading1, ".">>, <<"1", ".", " ">>}

\* '\n'.join(lines)
RECURSIVE join(_)
join(lines) ==
    IF lines = <<>> THEN <<>>
    ELSE IF Len(lines) = 1 THEN lines[1]
    ELSE lines[1] \o <<"\n">> \o join(Tail(lines))

\* s.split('\n'); cur is the line being read
RECURSIVE split(_, _)
split(s, cur) ==
    IF s = <<>> THEN <<cur>>
    ELSE IF Head(s) = "\n" THEN <<cur>> \o split(Tail(s), <<>>)
    ELSE split(Tail(s), Append(cur, Head(s)))

\* the position of the first '.' of s, 0 if there is none
RECURSIVE find_dot(_, _)
find_dot(s, i) ==
    IF i > Len(s) THEN 0
    ELSE IF s[i] = "." THEN i ELSE find_dot(s, i + 1)

\* the tests of the loop body on one line: the line is dropped
skip_line_keep_headings(line) ==
    LET stripped_line == strip(line)
    IN \/ (stripped_line # <<>> /\ stripped_line[1] = Fence)
       \/ \E i \in 1..Len(stripped_line) : stripped_line[i] = Phrase
       \/ /\ stripped_line # <<>>
          /\ stripped_line[1] \in Digits
          /\ find_dot(stripped_line, 1) > 0
          /\ \A i \in 1..(find_dot(stripped_line, 1) - 1) : stripped_line[i] \in Digits
skip_line(line) ==
    LET stripped_line == strip(line)
    IN \/ (stripped_line # <<>> /\ stripped_line[1] = Fence)
       \/ \E i \in 1..Len(stripped_line) : stripped_line[i] = Phrase
       \/ (Len(stripped_line) > 1 /\ stripped_line[1] = Heading)
       \/ /\ stripped_line # <<>>
          /\ stripped_line[1] \in Digits
          /\ find_dot(stripped_line, 1) > 0
          /\ \A i \in 1..(find_dot(stripped_line, 1) - 1) : stripped_line[i] \in Digits

RECURSIVE keep_lines(_)
keep_lines(lines) ==
    IF lines = <<>> THEN <<>>
    ELSE IF skip_line(Head(lines)) THEN keep_lines(Tail(lines))
    ELSE <<Head(lines)>> \o keep_lines(Tail(lines))

has_triple(s) ==
    \E i \in 1..(Len(s) - 2) : s[i] = "\n" /\ s[i + 1] = "\n" /\ s[i + 2] = "\n"

\* cleaned_content.replace('\n\n\n', '\n\n'): one pass from the left, over
\* non-overlapping occurrences
RECURSIVE replace_triple(_)
replace_triple(s) ==
    IF s = <<>> THEN <<>>
    ELSE IF Len(s) >= 3 /\ s[1] = "\n" /\ s[2] = "\n" /\ s[3] = "\n"
      THEN <<"\n", "\n">> \o replace_triple(SubSeq(s, 4, Len(s)))
    ELSE <<Head(s)>> \o replace_triple(Tail(s))

\* while '\n\n\n' in cleaned_content: cleaned_content = cleaned_content.replace(...)
collapse_one_pass(s) == IF has_triple(s) THEN replace_triple(s) ELSE s
RECURSIVE collapse(_)
collapse(s) == IF has_triple(s) THEN collapse(replace_triple(s)) ELSE s

\* '\n'.join(cleaned_lines).strip()
joined_content(content) == strip(join(keep_lines(split(strip(content), <<>>))))

CleanIdle ==
    /\ clean_input = <<>>
    /\ clean_joined = <<>>
    /\ clean_output = <<>>
    /\ cleaned = FALSE

CleanInit ==
    /\ clean_input \in {join(ls) : ls \in UNION {[1..n -> LineKinds] : n \in 0..MaxLines}}
    /\ clean_joined = <<>>
    /\ clean_output = <<>>
    /\ cleaned = FALSE

\* APIService._clean_generated_content
clean_generated_content ==
    /\ ~cleaned
    /\ clean_joined' = joined_content(clean_input)
    /\ clean_output' = collapse(clean_joined')
    /\ cleaned' = TRUE
    /\ UNCHANGED <<detVars, docVars, apiVars, capVars, cfgVars, valVars, reqVars, lockVars, truncVars, parseVars, clean_input>>

(***************************************************************************)
(* Response normalization (APIService._parse_response). A JSON value is    *)
(* absent, null, a number or a string; a string is a sequence of           *)
(* characters.                                                             *)
(***************************************************************************)
Absent == [t |-> "absent", s |-> <<>>]
Null == [t |-> "null", s |-> <<>>]
Number == [t |-> "number", s |-> <<>>]
Str(s) == [t |-> "string", s |-> s]
JsonValues == {Null, Number, Str(<<>>), Str(<<" ", "a", "\n">>)}

\* choice["message"]: absent, an object without "content", or an object
\* whose "content" is a value
Messages ==
    {[present |-> FALSE, content |-> Absent], [present |-> TRUE, content |-> Absent]}
      \cup {[present |-> TRUE, content |-> v] : v \in JsonValues}

\* response["choices"]: absent, [], or a list whose first element has the
\* message and the text given
ChoiceLists ==
    {[present |-> FALSE, first |-> FALSE, message |-> [present |-> FALSE, content |-> Absent],
      text |-> Absent],
     [present |-> TRUE, first |-> FALSE, message |-> [present |-> FALSE, content |-> Absent],
      text |-> Absent]}
      \cup {[present |-> TRUE, first |-> TRUE, message |-> m, text |-> x] :
               m \in Messages, x \in {Absent} \cup JsonValues}

\* response["output"]: absent, an object without "text", or an object whose
\* "text" is a value
Outputs ==
    {[present |-> FALSE, text |-> Absent], [present |-> TRUE, text |-> Absent]}
      \cup {[present |-> TRUE, text |-> v] : v \in JsonValues}

Payloads == [choices : ChoiceLists, output : Outputs]

Returned(s) == [done |-> TRUE, raised |-> "none", value |-> s]
Raised(e) == [done |-> TRUE, raised |-> e, value |-> <<>>]
NotParsed == [done |-> FALSE, raised |-> "none", value |-> <<>>]

\* content.strip(): a value that is not a string has no strip attribute, and
\* AttributeError is not among the exceptions the except clause names
strip_value(v) ==
    IF v.t = "string" THEN Returned(strip(v.s)) ELSE Raised("AttributeError")

\* APIService._parse_response(response, ai_service); KeyError, IndexError
\* and ValueError leave it as ValueError
parse_response(response, ai_service) ==
    IF ai_service = "qianwen"
      THEN IF ~response.output.present THEN Raised("ValueError")
           ELSE IF response.output.text = Absent THEN Raised("ValueError")
           ELSE strip_value(response.output.text)
      ELSE IF ~response.choices.present \/ ~response.choices.first
             THEN Raised("ValueError")
           ELSE LET choice == response.choices
                IN IF choice.message.present /\ choice.message.content # Absent
                     THEN strip_value(choice.message.content)
                   ELSE IF choice.text # Absent THEN strip_value(choice.text)
                   ELSE Raised("ValueError")

ParseIdle ==
    /\ payload = [choices |-> [present |-> FALSE, first |-> FALSE,
                               message |-> [present |-> FALSE, content |-> Absent],
                               text |-> Absent],
                  output |-> [present |-> FALSE, text |-> Absent]]
    /\ parse_service = "deepseek"
    /\ parsed = NotParsed

ParseInit ==
    /\ payload \in Payloads
    /\ parse_service \in Services
    /\ parsed = NotParsed

\* the call of _parse_response in generate_content
parse ==
    /\ ~parsed.done
    /\ parsed' = parse_response(payload, parse_service)
    /\ UNCHANGED <<detVars, docVars, apiVars, capVars, cfgVars, valVars, reqVars, lockVars, truncVars, cleanVars,
                   payload, parse_service>>

TextIdle == TruncIdle /\ CleanIdle /\ ParseIdle

(***************************************************************************)
(* The document path and the write mode: DocumentService.validate_path and *)
(* the write step of _handle_selection_enter.                              *)
(***************************************************************************)
\* the extensions a path can end with; ".csv" is none of those
\* write_document and read_document name
Extensions == {"txt", "md", "docx", "csv"}
SupportedExtensions == {"txt", "md", "docx"}

\* a path: whether it has a directory part, whether that directory exists
\* and is writable, what the path itself names, and whether that is
\* readable and writable
Paths ==
    {p \in [has_dir : BOOLEAN, dir_exists : BOOLEAN, dir_writable : BOOLEAN,
            kind : {"missing", "file", "directory"}, ext : Extensions,
            accessible : BOOLEAN] :
        /\ ~p.dir_exists => (p.kind = "missing" /\ ~p.dir_writable)
        /\ p.kind = "missing" => ~p.accessible
        /\ ~p.has_dir => (p.dir_exists /\ p.dir_writable)}

\* DocumentService.validate_path
validate_path(p) ==
    IF p.has_dir /\ ~p.dir_exists THEN FALSE
    ELSE IF p.kind # "missing" THEN p.accessible
    ELSE ~(p.has_dir /\ ~p.dir_writable)

\* the values config['write_mode'] can hold: the three of the mode combo
\* box, another text, or no entry
ConfigModes == WriteModes \cup {"invalid_mode", NoField}

\* write_mode = config.get('write_mode', 'incremental');
\* incremental = write_mode == 'incremental'
incremental_of(mode) ==
    LET write_mode == IF mode = NoField THEN "incremental" ELSE mode
    IN write_mode = "incremental"

NoRequest == [done |-> FALSE, raised |-> "none", incremental |-> FALSE]

\* the marker the settings page tells the user to put in the document for
\* the cursor mode, one element
CursorMarker == "[CURSOR]"
\* the texts of a target document: ordinary characters and markers
MarkedTexts == UNION {[1..n -> {"a", CursorMarker}] : n \in 0..MaxLen}
GeneratedTexts == {<<"b">>}
TextFile(p) == p.kind = "file" /\ p.ext \in {"txt", "md"}

ReqIdle ==
    /\ path_info = [has_dir |-> TRUE, dir_exists |-> TRUE, dir_writable |-> TRUE,
                    kind |-> "file", ext |-> "txt", accessible |-> TRUE]
    /\ req_write_mode = "incremental"
    /\ path_valid = "none"
    /\ write_req = NoRequest
    /\ req_document = <<>>
    /\ req_content = <<>>
    /\ req_written = <<>>

\* the text of the document is followed for a text file only
ReqInit ==
    /\ path_info \in Paths
    /\ req_write_mode \in ConfigModes
    /\ path_valid = "none"
    /\ write_req = NoRequest
    /\ req_document \in IF TextFile(path_info) THEN MarkedTexts ELSE {<<>>}
    /\ req_content \in GeneratedTexts
    /\ req_written = req_document

\* MainWindow.save_config asks validate_path about the document path
check_path ==
    /\ path_valid = "none"
    /\ path_valid' = IF validate_path(path_info) THEN "true" ELSE "false"
    /\ UNCHANGED <<detVars, docVars, apiVars, capVars, cfgVars, textVars, valVars, lockVars,
                   path_info, req_write_mode, write_req, req_document, req_content,
                   req_written>>

\* the write step of _handle_selection_enter: the mode of the configuration
\* becomes the incremental flag, and write_document starts by raising
\* ValueError for a path that validate_path refuses; a text file is left
\* with the text _write_text_file stages for that flag
request_write ==
    /\ ~write_req.done
    /\ write_req' = IF validate_path(path_info)
                      THEN [done |-> TRUE, raised |-> "none",
                            incremental |-> incremental_of(req_write_mode)]
                      ELSE [done |-> TRUE, raised |-> "ValueError", incremental |-> FALSE]
    /\ req_written' = IF validate_path(path_info) /\ TextFile(path_info)
                        THEN StagedText(File(req_document), req_content,
                                        incremental_of(req_write_mode))
                        ELSE req_written
    /\ UNCHANGED <<detVars, docVars, apiVars, capVars, cfgVars, textVars, valVars, lockVars,
                   path_info, req_write_mode, path_valid, req_document, req_content>>

SvcIdle == CfgInit /\ TextIdle /\ ValIdle /\ LockIdle /\ ReqIdle

vars == <<detVars, docVars, apiVars, capVars, svcVars>>

Init == DetInit /\ DocIdle /\ ApiIdle /\ CapIdle /\ SvcIdle

Next ==
    \/ Tick
    \/ AppStart
    \/ on_config_updated
    \/ \E b \in Buttons, p \in BOOLEAN : on_mouse_click(b, p)
    \/ on_mouse_scroll
    \/ \E m \in Monitors, k \in Keys : on_key_press(m, k)
    \/ \E m \in Monitors : pipe_capture(m)
    \/ \E m \in Monitors : pipe_config(m)
    \/ \E m \in Monitors : pipe_generate(m)
    \/ \E m \in Monitors : pipe_write(m)
    \/ \E m \in Monitors : pipe_finally(m)

Spec == Init /\ [][Next]_vars

\* a listener thread that has entered the pipeline keeps running it
FairSpec == Spec /\ \A m \in Monitors : WF_vars(PipelineStep(m))

InitDoc == DetInit /\ DocInit /\ ApiIdle /\ CapIdle /\ SvcIdle

NextDoc ==
    \/ write_invalid
    \/ \E c \in Texts, i \in BOOLEAN : write_begin(c, i)
    \/ \E ok \in BOOLEAN : stage_temp(ok)
    \/ \E ok \in BOOLEAN, readable \in BOOLEAN : docx_stage(ok, readable)
    \/ \E ok \in BOOLEAN, moved \in BOOLEAN : docx_import_error(ok, moved)
    \/ \E ok \in BOOLEAN : replace_posix(ok)
    \/ \E ok \in BOOLEAN : nt_remove(ok)
    \/ \E ok \in BOOLEAN : nt_move(ok)
    \/ \E ok \in BOOLEAN : copy_open(ok)
    \/ \E ok \in BOOLEAN : copy_write(ok)
    \/ \E ok \in BOOLEAN : write_end(ok)
    \/ \E ok \in BOOLEAN : read_document(ok)
    \/ Crash

SpecDoc == InitDoc /\ [][NextDoc]_vars

NextApi ==
    \/ \E cfg \in WriteModes : generate_content(cfg)
    \/ send_request
    \/ loop_test
    \/ \E r \in Responses, j \in BOOLEAN : post(r, j)
    \/ sleep_continue
    \/ validate_key
    \/ \E shape \in Shapes : validate_key_end(shape)

SpecApi == Init /\ [][NextApi]_vars

\* the thread inside _send_request keeps running: session.post returns or
\* raises within its timeout of 30 seconds, and time.sleep returns
ApiStep ==
    \/ loop_test
    \/ \E r \in Responses, j \in BOOLEAN : post(r, j)
    \/ sleep_continue

FairSpecApi == SpecApi /\ WF_vars(ApiStep)

InitCap == DetInit /\ DocIdle /\ ApiIdle /\ CapInit /\ SvcIdle

NextCap ==
    \/ capture_begin
    \/ \E ok \in BOOLEAN : win_copy(ok)
    \/ win_settle
    \/ \E out \in ReadOutcomes : win_read(out)
    \/ \E out \in ReadOutcomes : mac_capture(out)

SpecCap == InitCap /\ [][NextCap]_vars

InitCfg == DetInit /\ DocIdle /\ ApiIdle /\ CapIdle /\ CfgInit /\ TextIdle /\ ValIdle /\ LockIdle /\ ReqIdle

NextCfg ==
    \/ \E s \in Services, k \in Secrets, ok \in BOOLEAN : ui_save_config(s, k, ok)
    \/ app_load_config
    \/ read_api_key

SpecCfg == InitCfg /\ [][NextCfg]_vars

CfgRecentInit ==
    /\ config_file = NoConfigFile
    /\ ui_config = load_config(config_file)
    /\ used_key = NoField
    /\ RecentInit

InitRecent == DetInit /\ DocIdle /\ ApiIdle /\ CapIdle /\ CfgRecentInit /\ TextIdle /\ ValIdle /\ LockIdle /\ ReqIdle

NextRecent == \E document_path \in DocumentPaths, ok \in BOOLEAN : update_recent_documents(document_path, ok)

SpecRecent == InitRecent /\ [][NextRecent]_vars

InitTrunc == DetInit /\ DocIdle /\ ApiIdle /\ CapIdle /\ CfgInit /\ TruncInit /\ CleanIdle /\ ParseIdle /\ ValIdle /\ LockIdle /\ ReqIdle

NextTrunc == construct_prompt

SpecTrunc == InitTrunc /\ [][NextTrunc]_vars

InitPrompt == DetInit /\ DocIdle /\ ApiIdle /\ CapIdle /\ CfgInit /\ PromptInit /\ CleanIdle /\ ParseIdle /\ ValIdle /\ LockIdle /\ ReqIdle

NextPrompt == construct_prompt \/ template_replace

SpecPrompt == InitPrompt /\ [][NextPrompt]_vars

InitClean == DetInit /\ DocIdle /\ ApiIdle /\ CapIdle /\ CfgInit /\ TruncIdle /\ CleanInit /\ ParseIdle /\ ValIdle /\ LockIdle /\ ReqIdle

NextClean == clean_generated_content

SpecClean == InitClean /\ [][NextClean]_vars

InitParse == DetInit /\ DocIdle /\ ApiIdle /\ CapIdle /\ CfgInit /\ TruncIdle /\ CleanIdle /\ ParseInit /\ ValIdle /\ LockIdle /\ ReqIdle

NextParse == parse

SpecParse == InitParse /\ [][NextParse]_vars

\* an existing or missing text target on either system, and two threads
\* that have not called yet
InitLock ==
    /\ DetInit /\ ApiIdle /\ CapIdle /\ SvcIdle
    /\ DocInit
    /\ ext = "txt"

NextLock ==
    \/ \E t \in Threads, inc \in BOOLEAN : \E c \in CallTexts(t) : call_write(t, c, inc)
    \/ \E t \in Threads : acquire(t)
    \/ \E t \in Threads : write_temp(t)
    \/ \E t \in Threads : replace_target(t)
    \/ \E t \in Threads, to \in {"returned", "raised"} : leave(t, to)

SpecLock == InitLock /\ [][NextLock]_vars

InitReq ==
    /\ DetInit /\ DocIdle /\ ApiIdle /\ CapIdle
    /\ CfgInit /\ TextIdle /\ ValIdle /\ LockIdle /\ ReqInit

NextReq ==
    \/ check_path
    \/ request_write

SpecReq == InitReq /\ [][NextReq]_vars

TypeOK ==
    /\ now \in StartTime..MaxTime
    /\ created \in Monitors
    /\ \A m \in Monitors : pc[m] \in {"idle", "capture", "config", "generate", "write", "finally"}
    /\ dpc \in {"idle", "stage", "staged", "nt_move", "copy_open", "copying", "cleanup"}
    /\ apc \in {"idle", "prompt", "loop", "post", "sleep", "done"}
    /\ retry_count \in 0..MAX_RETRIES

(***************************************************************************)
(* Claims about the trigger detector                                       *)
(***************************************************************************)

\* C1: at most one pipeline run is in flight at any time in the process,
\* whatever the interleaving of pointer events, Enter presses and
\* configuration-save reloads.
C1_AtMostOneRunInFlight == Cardinality({m \in Monitors : Active(m)}) <= 1

\* C2: a confirmed trigger that arrives while a run is processing is
\* discarded and never starts a run: the number of pipeline runs equals the
\* number of confirmed triggers that arrived while no run was active.
C2_RunsEqualIdleTriggers == runsStarted = idleTriggers

\* C3: every pipeline run eventually resets the processing flag of its
\* detector, whichever way it ends.
C3_FlagEventuallyReleased ==
    \A m \in Monitors : is_processing[m] ~> ~is_processing[m]

\* a run that ended in a write error has left the flag released
C3_Witness ==
    /\ lastOutcome = "write_error"
    /\ NoRunActive
    /\ \A m \in Monitors : ~is_processing[m]

\* C4: when no run is active, an Enter press at time t2 starts a run iff the
\* most recent left-button release seen by the detector happened at a time t
\* with 0 < t2 - t < W.
C4_EnterStartsRunIffInWindow ==
    [][\A m \in Monitors :
         (NoRunActive /\ on_key_press(m, "enter"))
           => ((runsStarted' = runsStarted + 1)
                 <=> (/\ released[m] # NoRelease
                      /\ 0 < now - released[m]
                      /\ now - released[m] < WindowSeconds))]_vars

\* a run was started by an Enter press inside the window
C4_Witness ==
    \E m \in Monitors : /\ pc[m] = "capture"
                        /\ released[m] # NoRelease
                        /\ 0 < now - released[m]
                        /\ now - released[m] < WindowSeconds

(***************************************************************************)
(* Claims about the document store                                         *)
(***************************************************************************)

\* C5: at every moment during and after a write_document call, the fallback
\* copy included, a reader of the target path sees the complete original
\* content or the complete new content, never a missing, empty or partial file.
C5_ReaderSeesOldOrNew ==
    orig.exists => \/ target = orig
                   \/ staged.set /\ target = File(staged.data)

\* C6: if the process crashes after the temporary file was written, flushed
\* and synced and before the replace step has completed, the target still
\* exists with exactly its original content.
C6_CrashBeforeReplaceKeepsOriginal ==
    (/\ crashed
     /\ orig.exists
     /\ staged.set
     /\ \/ dpc \in {"staged", "nt_move", "copy_open"}
        \/ dpc = "copying" /\ Len(target.data) < Len(temp.data))
      => target = orig

\* leading and trailing whitespace removed, stated without recursion
Blank(c) == c \in {" ", "\t", "\n", "\r"}
Trimmed(s) ==
    LET keep == {i \in 1..Len(s) : ~Blank(s[i])}
    IN  IF keep = {} THEN <<>>
        ELSE SubSeq(s, CHOOSE i \in keep : \A j \in keep : i <= j,
                       CHOOSE i \in keep : \A j \in keep : j <= i)
NoCR(s) == \A i \in 1..Len(s) : s[i] # "\r"

\* a read_document that follows a write_document call in overwrite mode
\* that returned normally
ReadAfterOverwrite ==
    /\ ext = "txt"
    /\ read.valid
    /\ ~read.failed
    /\ lastWrite.done
    /\ ~lastWrite.incremental

\* a read_document that follows an overwrite that returned normally and then
\* an incremental write that returned normally
ReadAfterOverwriteThenIncremental ==
    /\ ext = "txt"
    /\ read.valid
    /\ ~read.failed
    /\ lastWrite.done
    /\ lastWrite.incremental
    /\ prevWrite.done

\* C7 as stated: for every content, an overwrite write followed by a read of
\* the text file returns exactly content.
C7_OverwriteThenReadReturnsContent ==
    ReadAfterOverwrite => read.text = lastWrite.content

\* C7, amended: for every content without a carriage return, an overwrite
\* write followed by a read of the text file returns content with its leading
\* and trailing whitespace removed.
C7_OverwriteThenReadReturnsTrimmed ==
    (ReadAfterOverwrite /\ NoCR(lastWrite.content))
      => read.text = Trimmed(lastWrite.content)

\* a read after an overwrite of content that has whitespace at an end and
\* text inside
C7_Witness ==
    /\ ReadAfterOverwrite
    /\ NoCR(lastWrite.content)
    /\ Trimmed(lastWrite.content) # lastWrite.content
    /\ Trimmed(lastWrite.content) # <<>>
    /\ read.text = Trimmed(lastWrite.content)

\* C8 as stated: for non-empty c1 and c2, an overwrite write of c1 followed
\* by an incremental write of c2 leaves the text file reading as c1, one
\* blank line, c2.
C8_IncrementalAppendsAfterBlankLine ==
    (/\ ReadAfterOverwriteThenIncremental
     /\ prevWrite.content # <<>>
     /\ lastWrite.content # <<>>)
      => read.text = prevWrite.content \o <<"\n", "\n">> \o lastWrite.content

\* C8, amended: for c1 and c2 without a carriage return that are both
\* non-empty once their leading and trailing whitespace is removed, an
\* overwrite write of c1 followed by an incremental write of c2 leaves the
\* text file reading as trimmed c1, one blank line, trimmed c2.
C8_IncrementalAppendsTrimmedAfterBlankLine ==
    (/\ ReadAfterOverwriteThenIncremental
     /\ NoCR(prevWrite.content)
     /\ NoCR(lastWrite.content)
     /\ Trimmed(prevWrite.content) # <<>>
     /\ Trimmed(lastWrite.content) # <<>>)
      => read.text = Trimmed(prevWrite.content) \o <<"\n", "\n">>
                       \o Trimmed(lastWrite.content)

\* a read after an overwrite of c1 and an incremental write of c2, both with
\* text inside, on a platform whose line separator is two bytes
C8_Witness ==
    /\ ReadAfterOverwriteThenIncremental
    /\ os_name = "nt"
    /\ NoCR(prevWrite.content)
    /\ NoCR(lastWrite.content)
    /\ Trimmed(prevWrite.content) # <<>>
    /\ Trimmed(lastWrite.content) # <<>>
    /\ Len(read.text) = Len(Trimmed(prevWrite.content)) + 2
                          + Len(Trimmed(lastWrite.content))

(***************************************************************************)
(* Claims about the retry engine                                           *)
(***************************************************************************)

\* C9: when the provider answers HTTP 401 the request fails at once as an
\* authentication error: no attempt and no sleep follows the 401, so a 401 on
\* the first attempt means exactly one attempt and no sleep at all.
C9_Http401FailsWithoutRetry ==
    \A k \in 1..Len(responses) :
        responses[k] = "401" =>
            /\ k = Len(responses)
            /\ attempts = k
            /\ Len(sleeps) = k - 1
            /\ apc = "done"
            /\ result = "auth_error"

\* a request whose first attempt met a 401 has ended
C9_Witness ==
    /\ responses = <<"401">>
    /\ attempts = 1
    /\ sleeps = <<>>
    /\ retry_count = 0
    /\ result = "auth_error"

\* the delays the claim names, in milliseconds
RetryDelays == <<2000, 3000>>
Transient == {"429", "timeout", "network"}

\* C10: an attempt k + 1 is made only after a sleep of 2 s (k = 1) or 3 s
\* (k = 2); a request that ended on a 429, a timeout or a network error had
\* made 3 attempts; there are never more than 3 attempts; and a 429 followed
\* by a 200 succeeds after exactly one retry whose delay is in [2 s, 3 s].
C10_RetryDelaysAndAttemptBound ==
    /\ attempts <= 3
    /\ \A k \in 1..(attempts - 1) :
          /\ Len(sleeps) >= k
          /\ sleeps[k] = RetryDelays[k]
    /\ (apc = "post" /\ attempts >= 1) => Len(sleeps) = attempts
    /\ (apc = "done" /\ attempts >= 1 /\ responses[attempts] \in Transient)
          => attempts = 3 /\ result = "exhausted"
    /\ responses = <<"429", "200">> =>
          /\ result = "returned"
          /\ attempts = 2
          /\ Len(sleeps) = 1
          /\ RetryDelays[1] <= sleeps[1]
          /\ sleeps[1] <= RetryDelays[2]

\* a request that succeeded on its third attempt, after a 429 and a timeout
C10_Witness ==
    /\ responses = <<"429", "timeout", "200">>
    /\ result = "returned"
    /\ attempts = 3
    /\ sleeps = <<2000, 3000>>

\* the HTTP error statuses other than 401 and 429
OtherHttpErrors == {"404", "500"}

\* C11: when the provider answers with an HTTP error status other than 401
\* and 429 the request fails at once with that error: no attempt and no sleep
\* follows it, so on the first attempt it means exactly one attempt and no
\* sleep at all.
C11_OtherHttpErrorFailsWithoutRetry ==
    \A k \in 1..Len(responses) :
        responses[k] \in OtherHttpErrors =>
            /\ k = Len(responses)
            /\ attempts = k
            /\ Len(sleeps) = k - 1
            /\ apc = "done"
            /\ result = "http_error"

\* a request whose first attempt met a 500 has ended
C11_Witness ==
    /\ responses = <<"500">>
    /\ attempts = 1
    /\ sleeps = <<>>
    /\ retry_count = 0
    /\ result = "http_error"

\* every attempt of the request so far met a 429 or a timeout
OnlyRateLimitOrTimeout ==
    \A k \in 1..Len(responses) : responses[k] \in {"429", "timeout"}

\* C12: the retry engine always terminates, and under a provider that keeps
\* answering 429 or keeps timing out it never returns a response, never makes
\* more than 3 attempts, and ends only after exactly 3 attempts, with the
\* retry-exhaustion error.
C12_RetryEngineTerminates ==
    /\ [](OnlyRateLimitOrTimeout =>
            /\ attempts <= 3
            /\ result \in {"none", "exhausted"}
            /\ (apc = "done" => attempts = 3 /\ result = "exhausted"))
    /\ (apc = "loop" ~> apc = "done")

\* a request that met 429, timeout, 429 has given up
C12_Witness ==
    /\ responses = <<"429", "timeout", "429">>
    /\ apc = "done"
    /\ attempts = 3
    /\ result = "exhausted"

(***************************************************************************)
(* Claims about the detector and its pipeline, continued                   *)
(***************************************************************************)

\* C13: the generation call and its backoff sleeps never run on a listener
\* thread: while the run of an instance is in generate_content, the key
\* listener and the pointer listener of that instance still handle an input
\* event.
C13_ListenersHandleInputWhileGenerating ==
    \A m \in Listening :
        pc[m] = "generate" =>
            /\ ENABLED on_key_press(m, "other")
            /\ ENABLED on_mouse_scroll

\* C14: every access to the state fields of the detector (selecting flag,
\* last-selection timestamp, processing flag) is made while holding its lock:
\* a step that changes one of them is a step of a handler that holds the lock.
C14_StateFieldsChangeUnderLock ==
    [][(<<is_selecting, last_select_time, is_processing>>'
          # <<is_selecting, last_select_time, is_processing>>)
         => WritesUnderLock]_vars

(***************************************************************************)
(* Claims about the document store, continued                              *)
(***************************************************************************)

\* C15: a failed document write is never swallowed: a write_document call
\* that did not put the new content in the target file raises, so after a
\* call that returned normally the target holds what the call staged.
C15_ReturnedWriteIsInTarget ==
    lastWrite.done => (staged.set /\ target = File(staged.data))

\* C17: after write_document has returned or raised, no temporary file that
\* it created remains, for text and docx targets, on every path.
C17_NoTemporaryFileAfterWrite ==
    dpc = "idle" => ~temp.exists

Positions(m, e) == {i \in 1..Len(emitted[m]) : emitted[m][i] \in e}

\* C18: every pipeline run emits processing_started first and then exactly
\* one terminal event, processing_completed or processing_failed, before the
\* processing flag is released; a run that failed has emitted
\* processing_failed, and only a run that succeeded processing_completed.
C18_StartedThenOneTerminalEvent ==
    \A m \in Monitors :
        /\ emitted[m] # <<>> => emitted[m][1] = "started"
        /\ Cardinality(Positions(m, {"started"})) <= 1
        /\ Cardinality(Positions(m, {"completed", "failed"})) <= 1
        /\ pc[m] = "finally" =>
              /\ is_processing[m]
              /\ Positions(m, {"started"}) = {1}
              /\ Cardinality(Positions(m, {"completed", "failed"})) = 1
              /\ IF outcome[m] = "success"
                   THEN Positions(m, {"completed"}) # {}
                   ELSE Positions(m, {"failed"}) # {}

\* a run whose generation failed is about to release the flag
C18_Witness ==
    \E m \in Monitors :
        /\ pc[m] = "finally"
        /\ outcome[m] = "generation_error"
        /\ emitted[m] = <<"started", "P_processing", "P_generating", "failed">>
        /\ is_processing[m]

(***************************************************************************)
(* Claims about the prompt                                                 *)
(***************************************************************************)

\* the template that belongs to a write mode
TemplateOf(mode) ==
    CASE mode = "overwrite" -> "REWRITE_PROMPT_TEMPLATE"
      [] mode = "incremental" -> "INCREMENTAL_PROMPT_TEMPLATE"
      [] mode = "cursor" -> "CURSOR_PROMPT_TEMPLATE"

\* C19: the prompt sent to the provider in a pipeline run is built from the
\* template that matches the configured write mode.
C19_TemplateMatchesConfiguredMode ==
    (template # "none" /\ attempts >= 1) => template = TemplateOf(cfg_write_mode)

(***************************************************************************)
(* Claims about selection capture                                          *)
(***************************************************************************)

\* the first text among the clipboard reads rs, "" if there is none
RECURSIVE FirstText(_)
FirstText(rs) ==
    IF rs = <<>> THEN ""
    ELSE IF Head(rs) \in ClipTexts THEN Head(rs) ELSE FirstText(Tail(rs))

\* C20: selection capture never raises to its caller and returns the empty
\* string on any failure; on Windows it makes at most 3 attempts, its settle
\* delays are strictly increasing, it reads the clipboard no more after a
\* non-empty text, and it returns the first non-empty text it read.
C20_CaptureReturnsFirstTextWithinThreeAttempts ==
    /\ ~cap_raised
    /\ cap_attempts <= 3
    /\ Len(settles) <= cap_attempts
    /\ \A i \in 1..Len(settles) : \A j \in 1..Len(settles) :
          i < j => settles[i] < settles[j]
    /\ \A k \in 1..(Len(reads) - 1) : reads[k] \notin ClipTexts
    /\ cpc = "done" => captured = FirstText(reads)
    /\ cpc # "done" => captured = ""

\* a capture on Windows that read a text on its third attempt
C20_Witness ==
    /\ system = "Windows"
    /\ cpc = "done"
    /\ cap_attempts = 3
    /\ Len(settles) = 3
    /\ reads = <<"empty", "raise", "a">>
    /\ captured = "a"

(***************************************************************************)
(* Claims about listener startup                                           *)
(***************************************************************************)

\* C21: if installing an input listener fails in start(), the failure is
\* reported upward to the caller of start(), the detector is not running and
\* has no listener left active.
C21_StartFailureReportedUpward ==
    \A m \in Live :
        installed[m] = "failed" =>
            /\ start_raised[m]
            /\ ~running[m]
            /\ m \notin Listening

(***************************************************************************)
(* Claims about the configuration file                                     *)
(***************************************************************************)

\* C22: the persisted configuration file never holds a provider credential in
\* plaintext: after any save, every API key the pipeline later reads (the
\* "<provider>_api_key" entries included) is stored only in encrypted form.
C22_NoPlaintextCredentialInFile ==
    config_file.exists =>
        /\ config_file.api_key \notin Secrets
        /\ \A s \in Services : config_file.keys[s] \notin Secrets

(***************************************************************************)
(* Claims about the text functions of the API service                      *)
(***************************************************************************)

\* C23: a document longer than the maximum length N is placed in the prompt
\* as head + elision marker + tail of total length exactly N, head being the
\* first N/2 and tail the last N/2 characters of the document, unchanged; a
\* document of length at most N is placed unchanged.
C23_TruncatedDocumentHasMaxLength ==
    constructed =>
        LET N == max_doc_length
            d == document_content
            out == prompt_document
        IN IF Len(d) > N
             THEN /\ Len(out) = N
                  /\ Prefix(out, N \div 2) = Prefix(d, N \div 2)
                  /\ Suffix(out, N \div 2) = Suffix(d, N \div 2)
             ELSE out = d

\* the text with every maximal run of three or more newlines made a run of
\* two; run is the number of newlines just read
RECURSIVE CollapseRuns(_, _)
CollapseRuns(s, run) ==
    IF s = <<>> THEN <<>>
    ELSE IF Head(s) = "\n"
      THEN (IF run < 2 THEN <<"\n">> ELSE <<>>) \o CollapseRuns(Tail(s), run + 1)
    ELSE <<Head(s)>> \o CollapseRuns(Tail(s), 0)

FenceLine(line) == strip(line) # <<>> /\ strip(line)[1] = Fence
PhraseLine(line) == \E i \in 1..Len(line) : line[i] = Phrase
LinesOf(s) == split(s, <<>>)

\* C24: content cleaning of any input yields an output with no fenced-code
\* delimiter line, no line containing a template-boundary phrase and no run
\* of three or more consecutive newlines: every such run is collapsed to
\* exactly two newlines.
C24_CleanedContentHasNoFencePhraseOrTripleNewline ==
    cleaned =>
        /\ \A i \in 1..Len(LinesOf(clean_output)) :
              /\ ~FenceLine(LinesOf(clean_output)[i])
              /\ ~PhraseLine(LinesOf(clean_output)[i])
        /\ ~has_triple(clean_output)
        /\ clean_output = CollapseRuns(clean_joined, 0)

\* a content whose fence line stood between blank lines: removing it left a
\* run of three newlines, which came out as two
C24_Witness ==
    /\ cleaned
    /\ clean_input = <<".", "\n", "\n", " ", Fence, ".", "\n", "\n", ".">>
    /\ clean_joined = <<".", "\n", "\n", "\n", ".">>
    /\ clean_output = <<".", "\n", "\n", ".">>

\* the value _parse_response is to return for a payload: message.content,
\* or text when message.content is absent; Absent when there is neither
Selected(response, ai_service) ==
    IF ai_service = "qianwen"
      THEN IF response.output.present THEN response.output.text ELSE Absent
      ELSE IF ~response.choices.present \/ ~response.choices.first THEN Absent
           ELSE IF response.choices.message.present
                   /\ response.choices.message.content # Absent
                  THEN response.choices.message.content
           ELSE response.choices.text

\* C25: on a payload whose expected fields are missing or malformed (no or
\* empty choices, a choice with neither message.content nor text, an absent
\* output or output.text, a null or non-string content value)
\* _parse_response raises ValueError and no other exception type; on a
\* well-formed payload it returns message.content, or text when
\* message.content is absent, with the surrounding whitespace removed.
C25_MalformedPayloadRaisesValueError ==
    parsed.done =>
        LET v == Selected(payload, parse_service)
        IN IF v.t = "string"
             THEN parsed = Returned(strip(v.s))
             ELSE parsed = Raised("ValueError")

\* C26: validate_key returns true when the provider answers with a
\* well-formed response shape, and returns false, rather than raising, when
\* the provider rejects the credential with HTTP 401.
C26_ValidateKeyFalseOn401 ==
    /\ (key_valid.result = "returned" /\ key_valid.shape = "well_formed")
          => key_valid.value = "true"
    /\ key_valid.result = "auth_error" => key_valid.value = "false"

(***************************************************************************)
(* Claims about the document store: concurrent writers, append, paths      *)
(***************************************************************************)
InWrite(t) == tpc[t] \in {"locked", "staged", "replaced"}

\* sub occurs in s as a run of consecutive characters
Occurs(sub, s) ==
    \E i \in 0..(Len(s) - Len(sub)) : SubSeq(s, i + 1, i + Len(sub)) = sub

\* C27: concurrent write_document calls on one DocumentService are
\* serialized by its lock: the read-existing, stage and replace steps of two
\* calls never interleave, and after two concurrent incremental writes to
\* the same file that both returned, both new contents are in the file.
C27_ConcurrentWritesSerialized ==
    /\ ~(InWrite(1) /\ InWrite(2))
    /\ (\A t \in Threads : tpc[t] = "returned" /\ t_incremental[t])
          => \A t \in Threads : Occurs(strip(t_content[t]), read_text_file(target))

\* both threads had called before either entered, both appended to an
\* existing file and returned, the second call to finish being that of
\* thread 1
C27_Witness ==
    /\ \A t \in Threads : tpc[t] = "returned" /\ t_incremental[t]
    /\ read_text_file(target) = <<"a", "\n", "\n", "y", "\n", "\n", "x">>

\* write_document has returned from an incremental write of a non-empty
\* content to an existing text file that ended with a newline
AppendedAfterNewline ==
    /\ ext = "txt"
    /\ dpc = "idle"
    /\ lastWrite.done
    /\ lastWrite.incremental
    /\ strip(lastWrite.content) # <<>>
    /\ orig.exists
    /\ read_text_file(orig) # <<>>
    /\ read_text_file(orig)[Len(read_text_file(orig))] = "\n"

C29_ValidPathIsExistingSupportedFile ==
    path_valid = "true"
      => (path_info.kind = "file" /\ path_info.ext \in SupportedExtensions)

\* C30: a document write requested with an unrecognized write mode is
\* rejected with a ValueError instead of being carried out under some other
\* mode.
C30_UnrecognizedModeRaisesValueError ==
    (write_req.done /\ req_write_mode \notin WriteModes \cup {NoField})
      => write_req.raised = "ValueError"

(***************************************************************************)
(* Claims about the progress stages and the trigger while the button is    *)
(* held                                                                    *)
(***************************************************************************)

\* the texts of progress_updated, and the ones on_progress_updated or the
\* run itself treat as final
ProgressStages == {"P_processing", "P_generating", "P_writing", "P_done",
                   "P_failed", "P_fail"}
FailedStages == {"P_failed", "P_fail"}

\* the progress stage the run of m emitted last ("none": it emitted none)
LastProgress(m) ==
    LET at == Positions(m, ProgressStages)
    IN  IF at = {} THEN "none"
        ELSE emitted[m][CHOOSE i \in at : \A j \in at : j <= i]

\* C38: the last progress stage emitted by every pipeline run is terminal,
\* done for a completed run and failed for a failed run: when the run ends
\* the event sink is not left showing generating or writing.
C38_LastProgressStageIsTerminal ==
    \A m \in Monitors :
        pc[m] = "finally" =>
            IF outcome[m] = "success"
              THEN LastProgress(m) = "P_done"
              ELSE LastProgress(m) \in FailedStages

\* C40: an Enter press while the primary button is held down (after a press
\* and before its release) starts no run, even when an earlier release
\* happened less than W before.
C40_NoTriggerWhileButtonHeld ==
    [][\A m \in Monitors :
         (is_selecting[m] /\ on_key_press(m, "enter")) => pc'[m] = "idle"]_vars

(***************************************************************************)
(* Claims about the sleeps of the retry engine                             *)
(***************************************************************************)

\* C36: the retry engine sleeps only between attempts: a request that ends
\* in retry exhaustion has slept once less than it made attempts, and no
\* request sleeps more than MAX_RETRIES - 1 times.
C36_SleepsOnlyBetweenAttempts ==
    /\ Len(sleeps) <= MAX_RETRIES - 1
    /\ result = "exhausted" => Len(sleeps) = attempts - 1

(***************************************************************************)
(* Claims about the heading and numbered lines of a cleaned content        *)
(***************************************************************************)

\* a line that begins with a markdown heading marker of some level
AnyHeadingLine(line) ==
    strip(line) # <<>> /\ strip(line)[1] \in {Heading1, Heading}
\* a line that begins with the level-two marker '## ' and has text after it
LevelTwoHeadingLine(line) ==
    Len(strip(line)) > 1 /\ strip(line)[1] = Heading
\* a line that begins with a digit sequence followed by a period
NumberedLine(line) ==
    LET s == strip(line)
        d == find_dot(s, 1)
    IN  d > 1 /\ \A i \in 1..(d - 1) : s[i] \in Digits

\* C34 as stated: the cleaned output has no line that begins with a
\* markdown heading marker, at any heading level, and no line that begins
\* with a digit sequence followed by a period.
C34_CleanedContentHasNoHeadingOrNumberedLine ==
    cleaned =>
        \A i \in 1..Len(LinesOf(clean_output)) :
            /\ ~AnyHeadingLine(LinesOf(clean_output)[i])
            /\ ~NumberedLine(LinesOf(clean_output)[i])

\* C34, amended: the cleaned output has no line that begins with the
\* level-two heading marker '## ' followed by text, and no line that begins
\* with a digit sequence followed by a period.
C34_CleanedContentHasNoLevelTwoHeadingOrNumberedLine ==
    cleaned =>
        \A i \in 1..Len(LinesOf(clean_output)) :
            /\ ~LevelTwoHeadingLine(LinesOf(clean_output)[i])
            /\ ~NumberedLine(LinesOf(clean_output)[i])

\* a content of a level-one heading, a level-two heading and a numbered
\* line: only the level-one heading is left
C34_Witness ==
    /\ cleaned
    /\ clean_input = <<Heading1, ".", "\n", Heading, ".", "\n", "1", ".", " ">>
    /\ clean_output = <<Heading1, ".">>

(***************************************************************************)
(* Claims about the substitution of the prompt template                    *)
(***************************************************************************)

\* the template with each placeholder replaced by its text, the texts
\* themselves left as they are
VerbatimPrompt(selected, document, theme) ==
    <<TemplateText>> \o selected \o <<TemplateText>> \o document
       \o <<TemplateText>> \o theme \o <<TemplateText>>

\* C39: prompt substitution inserts the selected text, the document content
\* and the theme prompt verbatim: a placeholder that occurs inside the
\* selected text or the document content is not expanded by a later
\* substitution step.
C39_SubstitutionIsVerbatim ==
    substituted =>
        prompt = VerbatimPrompt(selected_text, prompt_document,
                                theme_or_default(theme_prompt))

(***************************************************************************)
(* Claims about the list of recent documents                               *)
(***************************************************************************)

NoRepeat(list) ==
    \A i, j \in 1..Len(list) : list[i] = list[j] => i = j
\* the first n elements of list, or all of it
FirstN(list, n) == IF Len(list) > n THEN SubSeq(list, 1, n) ELSE list
\* list without x
Without(list, x) ==
    LET Other(y) == y # x
    IN  SelectSeq(list, Other)

\* C31: after any sequence of _update_recent_documents calls the stored
\* recent_documents list has no path twice and at most 10 entries, and it is
\* ordered most recently used first: a call that is saved leaves the path
\* it was given at the front, followed by the paths the list held before, in
\* their order and without that path, up to 10 entries in all.
C31_RecentDocumentsMostRecentFirst ==
    /\ [](/\ NoRepeat(recent_documents.list)
          /\ Len(recent_documents.list) <= max_recent)
    /\ [][\A p \in DocumentPaths :
            update_recent_documents(p, TRUE) =>
                recent_documents'.list =
                    FirstN(<<p>> \o Without(IF recent_documents.exists
                                              THEN recent_documents.list
                                              ELSE default_recent, p),
                           max_recent)]_vars

\* the list of default_config held 10 paths and was given an eleventh: the
\* list that was saved is without the oldest one
C31_Witness ==
    /\ updates = 1
    /\ default_recent = <<1, 11, 10, 9, 8, 7, 6, 5, 4, 3, 2>>
    /\ recent_documents.exists
    /\ recent_documents.list = <<1, 11, 10, 9, 8, 7, 6, 5, 4, 3>>

(***************************************************************************)
(* Claims about the cursor write mode                                      *)
(***************************************************************************)

\* the positions of the marker in a text
MarkerPositions(text) == {i \in 1..Len(text) : text[i] = CursorMarker}

\* the text with content in the place of its marker
Spliced(text, content) ==
    LET at == CHOOSE i \in MarkerPositions(text) : TRUE
    IN  SubSeq(text, 1, at - 1) \o content \o SubSeq(text, at + 1, Len(text))

\* C35: with write mode cursor, the write of the pipeline to a text document
\* that holds one marker puts the generated content in the place of the
\* marker and keeps the rest of the document.
C35_CursorModeSplicesAtMarker ==
    (/\ write_req.done
     /\ write_req.raised = "none"
     /\ req_write_mode = "cursor"
     /\ TextFile(path_info)
     /\ Cardinality(MarkerPositions(req_document)) = 1)
      => req_written = Spliced(req_document, req_content)

(***************************************************************************)
(* Claims about cancelled and used selections, and about what a failed run *)
(* has done                                                                *)
(***************************************************************************)

\* C32: a scroll event during Selecting cancels the selection: after a
\* button press, a scroll and the button release, an Enter press within W
\* starts no run.
C32_ScrollCancelsSelection ==
    [][\A m \in Monitors :
         (selection[m] = "cancelled" /\ on_key_press(m, "enter"))
           => pc'[m] = "idle"]_vars

\* C33: each selection gives rise to at most one run: once a run was started
\* for a selection and has ended, a further Enter press within W without a
\* new selection starts no second run.
C33_OneRunPerSelection ==
    [][\A m \in Monitors :
         (selection[m] = "consumed" /\ on_key_press(m, "enter"))
           => pc'[m] = "idle"]_vars

\* the outcomes of a run that failed before its write stage
FailedBeforeWrite == {"empty_selection", "no_document_path", "generation_error"}

\* C37: a pipeline run that fails before the write stage has not called
\* write_document, so the target document is as it was, and a run with an
\* empty selection or an unset document path has sent no request to the
\* provider.
C37_FailedRunLeavesDocumentAndProvider ==
    \A m \in Monitors :
        /\ outcome[m] \in FailedBeforeWrite => "write" \notin effects[m]
        /\ outcome[m] \in {"empty_selection", "no_document_path"}
              => "request" \notin effects[m]

\* a run failed after its request was sent, and one failed on an unset
\* document path
C37_Witness ==
    \E m \in Monitors :
        /\ pc[m] = "finally"
        /\ lastOutcome = "no_document_path"
        /\ outcome[m] = "generation_error"
        /\ effects[m] = {"request"}

====
